---- MODULE Spec2Model ----
(***************************************************************************)
(* State-machine model of the voice test framework's orchestration core:   *)
(*   - SimulatedClock        (core/clock.py)                               *)
(*   - MockToolRegistry      (tools/registry.py)                           *)
(*   - ScenarioOrchestrator  (core/orchestrator.py)                        *)
(* Times are integers (one unit standing for a fixed fraction of a         *)
(* second); asyncio tasks are processes whose program counters record the  *)
(* suspension point they are parked at.  Every action is the code that     *)
(* runs between two suspension points of one task.                         *)
(***************************************************************************)
EXTENDS Integers, Sequences, FiniteSets, TLC

(* ------------------------------ bounds --------------------------------- *)
\* largest simulated time a caller passes to the clock API
MaxTime == 2

Times == 0..MaxTime

Max(a, b) == IF a >= b THEN a ELSE b

\* tasks that are inside advance_to / advance_by concurrently
Advancers == {"a1", "a2"}
\* tasks that are inside wait_until concurrently
ClockWaiters == {"w1", "w2"}

VARIABLES
    \* SimulatedClock fields
    current,      \* _current
    realtime,     \* _realtime
    waiters,      \* _waiters: sequence of [target, ev]; ev names the asyncio.Event
    evset,        \* evset[e]: the asyncio.Event e is set
    \* the clock's callers
    adv,          \* adv[a]: where advance_to caller a is parked, with its locals
                  \*   target, delta; left = wall-clock time its sleep still lasts
    cw            \* cw[w]: where wait_until caller w is parked, with its target

clockVars == <<current, realtime, waiters, evset, adv, cw>>

\* most handle_call invocations the SUT makes
MaxCalls == 2
\* most wait_for_call invocations the test side makes
MaxWaits == 2

\* tool names: ToolNames are the names the SUT calls and the test waits for,
\* RegisteredTools the ones with a ToolMock in MockToolRegistry.tools
ToolNames == {"get_weather", "nonexistent"}
EveryToolRegistered == ToolNames
RegisteredTools == {"get_weather"}

\* args dictionaries, as functions from a set of keys to values
ArgKeys == {"location"}
ArgVals == {"NYC", "LA"}
ArgDicts == UNION {[K -> ArgVals] : K \in SUBSET ArgKeys}
\* the expected_args a caller passes: None, or a dictionary
NoneArgs == [given |-> FALSE, args |-> [k \in {} |-> "NYC"]]
ExpectedArgs == {NoneArgs} \cup {[given |-> TRUE, args |-> d] : d \in {[location |-> "NYC"]}}
\* Python's None in a field of an AssertionResult
None == [none |-> TRUE]
\* the dictionary {}
EmptyDict == [k \in {} |-> None]

\* the (tool, args) pairs the SUT calls handle_call with
CallInputs ==
    {<<"get_weather", d>> : d \in ArgDicts} \cup {<<"nonexistent", [k \in {} |-> "NYC"]>>}

\* tasks of the SUT adapter that are inside handle_call
Handlers == {"h1"}
\* test-side tasks that call wait_for_call; "disp" is the orchestrator's
\* dispatch task
WaitTasks == {"t1", "t2"}
AllWaitTasks == WaitTasks \cup {"disp"}

VARIABLES
    \* MockToolRegistry fields
    call_log,     \* sequence of [tool, args, timestamp]
    pending,      \* _pending_expectations: sequence of expectations, each
                  \*   named by the task whose wait_for_call created it
    received,     \* received[w]: the expectation's asyncio.Event is set
    \* the registry's callers
    hst,          \* hst[h]: where handle_call caller h is parked; res is the
                  \*   ToolResult of its last call
    wst,          \* wst[w]: where wait_for_call caller w is parked, with its
                  \*   arguments and the AssertionResult of its last call
    \* history
    ncalls,       \* handle_call invocations so far
    nwaits        \* nwaits[name]: wait_for_call(name) invocations so far

toolVars == <<call_log, pending, received, hst, wst, ncalls, nwaits>>

\* most entries in a scenario's timeline
MaxEvents == 2

VARIABLES
    \* ScenarioOrchestrator fields
    timeline,     \* the priority queue, as the set of its TimelineEvents
    seq,          \* _seq
    \* run()
    run,          \* where the run task is; event is the event dispatched
                  \*   last, with history: the clock before its advance_to
                  \*   (nowBefore) and on entry of _dispatch (entryNow), and
                  \*   whether its tool was in call_log on entry (hadCall)
    assertions,   \* results.assertions
    layers,       \* the names in self.layers
    \* history
    dispatched    \* the events dispatched in this run, in order, each with
                  \*   whether its dispatch raised

\* most chunks the audio layer generates for one utterance
MaxChunks == 2
\* most ResponseEvents the SUT emits
MaxSutEvents == 2

VARIABLES
    \* the run's system argument and what run does with it
    system,       \* run was called with a system (an adapter of the SUT)
    collector,    \* the response collector task: where it is, and whether
                  \*   its cancellation has been requested
    speak,        \* the user_speak in progress or last dispatched: its
                  \*   event's sequence number, the number of chunks the
                  \*   audio layer generates, the next one, and (history)
                  \*   what network.apply returned for the chunks so far
    \* the SUT adapter
    stream,       \* the ResponseEvents the adapter has queued for its
                  \*   response stream and nobody has consumed
    adapter_calls,\* history: the adapter methods invoked, in order
    nemitted,     \* history: ResponseEvents the SUT has emitted
    \* results
    responses,    \* results.responses
    first_byte_latencies,   \* results.latency.first_byte_latencies
    tool_calls,   \* results.tool_calls.calls
    barge_in,     \* results.barge_in
    \* NetworkSimulator
    loss_rate     \* loss_rate, in percent

VARIABLES
    \* a function under study, outside any run
    fn_args,      \* the arguments it is called with
    fn_result     \* what the call returned; None before the call

VARIABLES
    \* an adapter (OpenAIRealtimeAdapter or CustomWebSocketAdapter) used
    \* directly, outside any run
    adapter_kind,    \* which of the two classes: "openai" or "custom"
    ws_open,         \* _ws is not None
    listener,        \* _listener_task: "none", or where the task is
    adapter_state,   \* _state
    response_queue,  \* _response_queue: the types of the events queued
    disconnecting,   \* a disconnect() call is suspended in `await
                     \*   self._listener_task`
    disconnected,    \* history: a disconnect() has completed and connect()
                     \*   has not been called since
    last_call,       \* history: the last call of the adapter's API that
                     \*   ended, whether _ws was None when it began, and how
                     \*   it ended
    consumer,        \* the consumer of get_response_stream()
    delivered,       \* history: the events the consumer has received
    nadapter,        \* history: calls of the adapter's API begun
    nmsgs            \* history: messages received from the server

adapterVars == <<adapter_kind, ws_open, listener, adapter_state, response_queue,
                 disconnecting, disconnected, last_call, consumer, delivered,
                 nadapter, nmsgs>>

\* two runs of one user_speak scenario through the audio pipeline
VARIABLES
    audio_run,    \* the scenario, the seed, the run in progress and its position
    pushed        \* per run, the data of the chunks given to system.push_audio

pipeVars == <<audio_run, pushed>>

\* a NetworkSimulator, the calls of apply and the simulate_disconnect tasks
VARIABLES
    is_connected, \* NetworkSimulator.is_connected
    net_buffer,   \* NetworkSimulator._buffer: the chunks held back
    net_apply,    \* the call of apply in progress
    net_log,      \* the calls of apply that have returned, with their results
    outage        \* where each simulate_disconnect task is

netVars == <<is_connected, net_buffer, net_apply, net_log, outage>>

\* successive calls of run() on one orchestrator
VARIABLES
    last_run      \* history: how many runs have returned, and the clock time
                  \*   and the sequence counter when the latest one returned

histVars == <<last_run>>

\* the variables outside the orchestrator, its layers' registry and the adapter
extraVars == <<pipeVars, netVars, histVars>>

auxVars == <<fn_args, fn_result, adapterVars, extraVars>>

sysVars == <<system, collector, speak, stream, adapter_calls, nemitted,
             responses, first_byte_latencies, tool_calls, barge_in, loss_rate,
             auxVars>>

runVars == <<timeline, seq, run, assertions, layers, dispatched, sysVars>>

nonClockVars == <<toolVars, runVars>>
nonToolVars == <<adv, cw, realtime, waiters, evset, runVars>>
vars == <<clockVars, toolVars, runVars>>

AdvIdle == [pc |-> "idle", target |-> 0, delta |-> 0, left |-> 0]
CwIdle == [pc |-> "idle", target |-> 0]

(* ------------------------- SimulatedClock ------------------------------ *)

\* _wake_waiters: the continuations that stay registered
StillWaitingLate(ws, cur) == SelectSeq(ws, LAMBDA w : ~(cur > w.target))
StillWaiting(ws, cur) == SelectSeq(ws, LAMBDA w : ~(cur >= w.target))

\* _wake_waiters: the events it sets
WokenAll(ws, cur) == {ws[i].ev : i \in 1..Len(ws)}
Woken(ws, cur) == {ws[i].ev : i \in {j \in 1..Len(ws) : cur >= ws[j].target}}

\* the tail of advance_to, after the optional sleep:
\*   self._current = target; self._wake_waiters()
SetAndWake(target) ==
    /\ current' = target
    /\ waiters' = StillWaiting(waiters, target)
    /\ evset' = [e \in DOMAIN evset |->
                    evset[e] \/ e \in Woken(waiters, target)]

\* advance_to up to its first suspension point (or its return)
AdvanceToBody(a, target) ==
    /\ adv[a].pc = "idle"
    /\ IF target <= current
       THEN UNCHANGED clockVars
       ELSE IF realtime
            THEN /\ adv' = [adv EXCEPT ![a] =
                        [pc |-> "sleeping", target |-> target,
                         delta |-> target - current,
                         left |-> target - current]]
                 /\ UNCHANGED <<current, realtime, waiters, evset, cw>>
            ELSE /\ SetAndWake(target)
                 /\ UNCHANGED <<realtime, adv, cw>>

AdvanceTo(a, target) == AdvanceToBody(a, target) /\ UNCHANGED nonClockVars

\* advance_by(delta) = advance_to(_current + delta)
AdvanceBy(a, d) == AdvanceToBody(a, current + d) /\ UNCHANGED nonClockVars

\* asyncio.sleep(delta) inside advance_to is over: the caller resumes
AdvanceWake(a) ==
    /\ UNCHANGED nonClockVars
    /\ adv[a].pc = "sleeping"
    /\ adv[a].left = 0
    /\ SetAndWake(adv[a].target)
    /\ adv' = [adv EXCEPT ![a] = AdvIdle]
    /\ UNCHANGED <<realtime, cw>>

\* wait_until up to event.wait()
WaitUntil(w, target) ==
    /\ UNCHANGED nonClockVars
    /\ cw[w].pc = "idle"
    /\ IF current >= target
       THEN UNCHANGED clockVars
       ELSE /\ waiters' = Append(waiters, [target |-> target, ev |-> w])
            /\ evset' = [evset EXCEPT ![w] = FALSE]
            /\ cw' = [cw EXCEPT ![w] = [pc |-> "suspended", target |-> target]]
            /\ UNCHANGED <<current, realtime, adv>>

\* event.wait() returns once the event is set and the task is scheduled
WaitResume(w) ==
    /\ UNCHANGED nonClockVars
    /\ cw[w].pc = "suspended"
    /\ evset[w]
    /\ cw' = [cw EXCEPT ![w] = CwIdle]
    /\ UNCHANGED <<current, realtime, waiters, evset, adv>>

SetRealtime(enabled) ==
    /\ UNCHANGED nonClockVars
    /\ realtime # enabled
    /\ realtime' = enabled
    /\ UNCHANGED <<current, waiters, evset, adv, cw>>

\* self._waiters.clear(): the list reset() leaves
KeptWaiters(ws) == ws
ClearedWaiters(ws) == <<>>

Reset ==
    /\ UNCHANGED nonClockVars
    /\ current' = 0
    /\ waiters' = ClearedWaiters(waiters)
    /\ UNCHANGED <<realtime, evset, adv, cw>>

\* one unit of wall-clock time passes for every sleeper; the event loop runs
\* a timer that is due before it lets more time pass
Tick ==
    /\ UNCHANGED nonClockVars
    /\ \E a \in Advancers : adv[a].pc = "sleeping"
    /\ \A a \in Advancers : adv[a].pc = "sleeping" => adv[a].left > 0
    /\ adv' = [a \in Advancers |->
                  IF adv[a].pc = "sleeping"
                  THEN [adv[a] EXCEPT !.left = @ - 1] ELSE adv[a]]
    /\ UNCHANGED <<current, realtime, waiters, evset, cw>>

ClockInit ==
    /\ current = 0
    /\ realtime \in BOOLEAN
    /\ waiters = <<>>
    /\ evset = [w \in ClockWaiters |-> FALSE]
    /\ adv = [a \in Advancers |-> AdvIdle]
    /\ cw = [w \in ClockWaiters |-> CwIdle]

ClockNext ==
    \/ \E a \in Advancers, x \in Times : AdvanceTo(a, x)
    \/ \E a \in Advancers, d \in 1..MaxTime : current + d <= MaxTime /\ AdvanceBy(a, d)
    \/ \E a \in Advancers : AdvanceWake(a)
    \/ \E w \in ClockWaiters, x \in Times : WaitUntil(w, x)
    \/ \E w \in ClockWaiters : WaitResume(w)
    \/ \E b \in BOOLEAN : SetRealtime(b)
    \/ Reset
    \/ Tick

(* ------------------------ MockToolRegistry ----------------------------- *)

HIdle == [pc |-> "idle", res |-> "none"]
\* overlap and kth are history: whether another wait_for_call for the same
\* name was in progress during this one, and, for a wait that overlapped
\* none and found a call, whether it was the k-th wait for its name and
\* resolved to the k-th entry of the call log with that name
WIdle == [pc |-> "idle", tool |-> "", expected |-> NoneArgs, res |-> None,
          overlap |-> FALSE, kth |-> "n/a"]

\* _now(): the clock's time (0.0 when no clock is set, which is also what a
\* clock nobody advances reads)
RegistryNow == current

\* calls = [c for c in self.call_log if c["tool"] == tool_name]
MatchingCalls(log, name) == SelectSeq(log, LAMBDA c : c.tool = name)

\* last_call = calls[-1]
FirstCall(calls) == calls[1]
LastCall(calls) == calls[Len(calls)]

\* the loop over expected_args.items(): it looks for a key that is absent
\* and compares no value
MissingKey(expected, args) == \E key \in DOMAIN expected : key \notin DOMAIN args

\* for exp in self._pending_expectations:
\*     if exp.tool_name == tool_name: exp.received.set()
SignalAllExpectations(name) ==
    [w \in DOMAIN received |->
        received[w] \/ \E i \in 1..Len(pending) : pending[i] = w]
SignalExpectations(name) ==
    [w \in DOMAIN received |->
        received[w] \/ ((\E i \in 1..Len(pending) : pending[i] = w) /\ wst[w].tool = name)]

\* self.call_log.append(record)
LogPrepended(log, record) == <<record>> \o log
LogAppended(log, record) == Append(log, record)

\* handle_call up to its first suspension point (or its return for an
\* unknown tool): record, signal, look the mock up
HandleCallCore(h, name, args) ==
    /\ hst[h].pc = "idle"
    /\ ncalls < MaxCalls
    /\ ncalls' = ncalls + 1
    /\ call_log' = LogAppended(call_log,
                      [tool |-> name, args |-> args, timestamp |-> RegistryNow])
    /\ received' = SignalExpectations(name)
    /\ hst' = [hst EXCEPT ![h] =
                  IF name \notin RegisteredTools
                  THEN [pc |-> "idle", res |-> "unknown_tool"]
                  ELSE [pc |-> "sleeping", res |-> "none"]]
    /\ UNCHANGED <<pending, wst, nwaits>>

HandleCall(h, name, args) ==
    HandleCallCore(h, name, args) /\ UNCHANGED <<nonToolVars, current>>

\* the latency sleep is over: fail with probability failure_rate, else
\* invoke the handler and succeed
HandleCallWake(h) ==
    /\ hst[h].pc = "sleeping"
    /\ \E r \in {"failure", "success"} :
          hst' = [hst EXCEPT ![h] = [pc |-> "idle", res |-> r]]
    /\ UNCHANGED <<call_log, pending, received, wst, ncalls, nwaits>>
    /\ UNCHANGED <<nonToolVars, current>>

\* the wait_for_call(name) invocations between registration and return
InProgress(name) ==
    {w \in AllWaitTasks : wst[w].pc \in {"waiting", "timing_out"} /\ wst[w].tool = name}

\* wait_for_call invocations so far, for all names
WaitsBegun == nwaits["get_weather"] + nwaits["nonexistent"]

\* wait_for_call up to asyncio.wait_for: register a fresh expectation.
\* wait_for with timeout <= 0 cancels the wait at once and the caller is
\* suspended until the cancellation is delivered.
\* _ToolExpectation(tool_name=tool_name).received: a new asyncio.Event,
\* which is not set, whatever the call log holds
SetIfLogged(log, name) == MatchingCalls(log, name) # <<>>
FreshEvent(log, name) == FALSE

WaitRegisterCore(w, name, expected, timeout) ==
    /\ wst[w].pc \in {"idle", "done", "cancelled"}
    /\ nwaits' = [nwaits EXCEPT ![name] = @ + 1]
    /\ pending' = Append(pending, w)
    /\ received' = [received EXCEPT ![w] = FreshEvent(call_log, name)]
    /\ wst' = [v \in AllWaitTasks |->
                 IF v = w
                 THEN [pc |-> IF timeout <= 0 THEN "timing_out" ELSE "waiting",
                       tool |-> name, expected |-> expected, res |-> None,
                       overlap |-> InProgress(name) # {}, kth |-> "n/a"]
                 ELSE IF v \in InProgress(name)
                      THEN [wst[v] EXCEPT !.overlap = TRUE]
                      ELSE wst[v]]
    /\ UNCHANGED <<call_log, hst, ncalls>>

WaitRegister(w, name, expected, timeout) ==
    WaitRegisterCore(w, name, expected, timeout) /\ UNCHANGED <<nonToolVars, current>>

\* the timeout of asyncio.wait_for elapses before the waiting task has run
\* again: the wait is cancelled
TimerFireCore(w) ==
    /\ wst[w].pc = "waiting"
    /\ wst' = [wst EXCEPT ![w].pc = "timing_out"]
    /\ UNCHANGED <<call_log, pending, received, hst, ncalls, nwaits>>

TimerFire(w) == TimerFireCore(w) /\ UNCHANGED <<nonToolVars, current>>

\* self._pending_expectations.remove(exp)
RemoveFirstExpectation(pend, w) == Tail(pend)
RemoveExpectation(pend, w) == SelectSeq(pend, LAMBDA e : e # w)

\* except asyncio.TimeoutError: the AssertionResult of a timeout
TimeoutResultPassed(name, expected) ==
    [timestamp |-> RegistryNow, passed |-> TRUE, description |-> "Timeout",
     expected |-> [tool |-> name,
                   args |-> IF expected.given THEN expected.args ELSE None],
     actual |-> None]
TimeoutResult(name, expected) ==
    [timestamp |-> RegistryNow, passed |-> FALSE, description |-> "Timeout",
     expected |-> [tool |-> name,
                   args |-> IF expected.given THEN expected.args ELSE None],
     actual |-> None]

\* lines 134-160: the AssertionResult after the expectation was signalled
SignalledResult(log, name, expected) ==
    LET calls == MatchingCalls(log, name) IN
    IF Len(calls) = 0
    THEN [timestamp |-> RegistryNow, passed |-> FALSE, description |-> "NeverCalled",
          expected |-> None, actual |-> None]
    ELSE IF expected.given /\ MissingKey(expected.args, LastCall(calls).args)
         THEN [timestamp |-> RegistryNow, passed |-> FALSE, description |-> "MissingArg",
               expected |-> expected.args, actual |-> LastCall(calls).args]
         ELSE [timestamp |-> RegistryNow, passed |-> TRUE, description |-> "Called",
               expected |-> None, actual |-> LastCall(calls).args]

\* TimeoutError reaches wait_for_call: finally removes the expectation, the
\* timeout result is returned
WaitTimeoutCore(w) ==
    /\ wst[w].pc = "timing_out"
    /\ pending' = RemoveExpectation(pending, w)
    /\ wst' = [wst EXCEPT ![w] = [WIdle EXCEPT
                    !.pc = "done",
                    !.res = TimeoutResult(wst[w].tool, wst[w].expected)]]
    /\ UNCHANGED <<call_log, received, hst, ncalls, nwaits>>

WaitTimeout(w) == WaitTimeoutCore(w) /\ UNCHANGED <<nonToolVars, current>>

\* history: w's wait overlapped no other wait for its name, so it is the
\* nwaits[name]-th; the entry it resolves to is the last of the
\* Len(MatchingCalls)-many with that name
KthEntry(w) ==
    IF wst[w].overlap \/ MatchingCalls(call_log, wst[w].tool) = <<>>
    THEN "n/a"
    ELSE IF Len(MatchingCalls(call_log, wst[w].tool)) = nwaits[wst[w].tool]
         THEN "yes" ELSE "no"

\* the expectation was signalled and the waiting task runs again: finally
\* removes the expectation, the call log is read
WaitSignalledCore(w) ==
    /\ wst[w].pc = "waiting"
    /\ received[w]
    /\ pending' = RemoveExpectation(pending, w)
    /\ wst' = [wst EXCEPT ![w] = [WIdle EXCEPT
                    !.pc = "done",
                    !.res = SignalledResult(call_log, wst[w].tool, wst[w].expected),
                    !.kth = KthEntry(w)]]
    /\ UNCHANGED <<call_log, received, hst, ncalls, nwaits>>

WaitSignalled(w) == WaitSignalledCore(w) /\ UNCHANGED <<nonToolVars, current>>

\* the task inside wait_for_call is cancelled while it is suspended in
\* asyncio.wait_for: CancelledError passes through the finally clause, which
\* removes the expectation, and leaves wait_for_call without a result
WaitCancelledCore(w) ==
    /\ wst[w].pc \in {"waiting", "timing_out"}
    /\ pending' = RemoveExpectation(pending, w)
    /\ wst' = [wst EXCEPT ![w] = [WIdle EXCEPT !.pc = "cancelled"]]
    /\ UNCHANGED <<call_log, received, hst, ncalls, nwaits>>

WaitCancelled(w) == WaitCancelledCore(w) /\ UNCHANGED <<nonToolVars, current>>

\* reset(): clear the call log
RegistryReset ==
    /\ call_log # <<>>
    /\ call_log' = <<>>
    /\ UNCHANGED <<pending, received, hst, wst, ncalls, nwaits>>
    /\ UNCHANGED <<nonToolVars, current>>

ToolInit ==
    /\ call_log = <<>>
    /\ pending = <<>>
    /\ received = [w \in AllWaitTasks |-> FALSE]
    /\ hst = [h \in Handlers |-> HIdle]
    /\ wst = [w \in AllWaitTasks |-> WIdle]
    /\ ncalls = 0
    /\ nwaits = [n \in ToolNames |-> 0]

\* a clock that the registry only reads
ClockAtRest ==
    /\ current = 0
    /\ realtime = FALSE
    /\ waiters = <<>>
    /\ evset = [w \in ClockWaiters |-> FALSE]
    /\ adv = [a \in Advancers |-> AdvIdle]
    /\ cw = [w \in ClockWaiters |-> CwIdle]

\* branches of an entry that is no conditional, or of a conditional without
\* a "default" key
NoBranches == [k \in {} |-> <<>>]

\* no event dispatched yet in this run
NoEvent == [timestamp |-> 0, seq |-> 0, action |-> "", duration_ms |-> 0,
            timeout_ms |-> 0, branches |-> NoBranches]

RunIdle == [pc |-> "idle", event |-> NoEvent, nowBefore |-> 0, entryNow |-> 0,
            hadCall |-> FALSE]

\* no response collector task
NoCollector == [pc |-> "none", cancel |-> FALSE]
\* BargeInResult()
NoBargeIn == [was_handled |-> FALSE, response_latency |-> 0]
\* no user_speak in progress
NoSpeech == [utt |-> 0, total |-> 0, next |-> 0, outcomes |-> <<>>]

\* no function is under study
NoCall == [op |-> "none", connected |-> FALSE, outcome |-> "none"]

\* an adapter of the given class after __init__
AdapterNew(kind) ==
    /\ adapter_kind = kind
    /\ ws_open = FALSE
    /\ listener = "none"
    /\ adapter_state = "idle"
    /\ response_queue = <<>>
    /\ disconnecting = FALSE
    /\ disconnected = FALSE
    /\ last_call = NoCall
    /\ consumer = "none"
    /\ delivered = <<>>
    /\ nadapter = 0
    /\ nmsgs = 0

\* no user_speak scenario chosen
PipeIdle == audio_run = None /\ pushed = <<>>

\* the simulate_disconnect tasks
OutageTasks == {"o1", "o2"}
\* no call of apply in progress
NoApply == [pc |-> "idle", chunk |-> 0]

\* NetworkSimulator.__init__: connected, nothing buffered
NetIdle ==
    /\ is_connected = TRUE
    /\ net_buffer = <<>>
    /\ net_apply = NoApply
    /\ net_log = <<>>
    /\ outage = [o \in OutageTasks |-> "idle"]

\* no run() has returned yet
NoRunBefore == [count |-> 0, final |-> 0, seq |-> 0]
HistIdle == last_run = NoRunBefore

ExtraIdle == PipeIdle /\ NetIdle /\ HistIdle

AuxIdle == fn_args = None /\ fn_result = None /\ AdapterNew("custom") /\ ExtraIdle

\* a ScenarioOrchestrator that has not run
OrchInit ==
    /\ timeline = {}
    /\ seq = 0
    /\ assertions = <<>>
    /\ run = RunIdle
    /\ layers = {}
    /\ dispatched = <<>>
    /\ system = FALSE
    /\ collector = NoCollector
    /\ speak = NoSpeech
    /\ stream = <<>>
    /\ adapter_calls = <<>>
    /\ nemitted = 0
    /\ responses = <<>>
    /\ first_byte_latencies = <<>>
    /\ tool_calls = <<>>
    /\ barge_in = NoBargeIn
    /\ loss_rate = 0

\* tasks are interchangeable: a new wait_for_call is started by t1 when t1
\* is free, by t2 only while t1 is inside a wait_for_call of its own
StartsWait(w) == w = "t1" \/ wst["t1"].pc \in {"waiting", "timing_out"}

StartWait(w, name, expected, timeout) ==
    /\ StartsWait(w)
    /\ WaitsBegun < MaxWaits
    /\ WaitRegister(w, name, expected, timeout)

ToolNext ==
    \/ \E h \in Handlers, c \in CallInputs : HandleCall(h, c[1], c[2])
    \/ \E h \in Handlers : HandleCallWake(h)
    \/ \E w \in WaitTasks, n \in ToolNames, e \in ExpectedArgs, t \in {0, 1} :
          StartWait(w, n, e, t)
    \/ \E w \in WaitTasks : TimerFire(w)
    \/ \E w \in WaitTasks : WaitTimeout(w)
    \/ \E w \in WaitTasks : WaitSignalled(w)
    \/ \E w \in WaitTasks : WaitCancelled(w)
    \/ RegistryReset

ToolsInit == ClockAtRest /\ ToolInit /\ OrchInit /\ AuxIdle

SpecTools == ToolsInit /\ [][ToolNext]_vars

\* a clock whose callers are the only tasks running
ClocksInit == ClockInit /\ ToolInit /\ OrchInit /\ AuxIdle

SpecClock == ClocksInit /\ [][ClockNext]_vars

(* ----------------------- ScenarioOrchestrator -------------------------- *)

\* now() after advance_to(target) has returned, in simulated mode
AdvancedToStays(cur, target) == cur
AdvancedToTarget(cur, target) == target
AdvancedTo(cur, target) == IF target <= cur THEN cur ELSE target

\* _parse_time: "<n>ms" is n / 1000 seconds, "<n>s" and a bare number are n
ParseTime(value) == IF value.unit = "ms" THEN value.num \div 1000 ELSE value.num

\* _parse_time raises ValueError: the string is no number with an optional
\* "s" or "ms" behind it
ParseRaises(value) == value.unit \notin {"s", "ms", ""}

\* a raw timeline entry of the scenario
Entry(at, action, duration_ms, timeout_ms, branches) ==
    [at |-> at, action |-> action, duration_ms |-> duration_ms,
     timeout_ms |-> timeout_ms, branches |-> branches]

\* entry.get("at", "0s")
DefaultAt == [num |-> 0, unit |-> "s"]
\* the "at" values of the scenarios: "0s" and "1000ms"
EntryTimes == {DefaultAt, [num |-> 1000, unit |-> "ms"]}

\* the entries of a conditional's default branch: an assert_system without
\* an "at" key
BranchEntries == <<Entry(DefaultAt, "assert_system", 0, 0, NoBranches)>>
\* a default branch whose second entry has an "at" that is no time ("soon")
BadBranchEntries ==
    <<Entry(DefaultAt, "assert_system", 0, 0, NoBranches),
      Entry([num |-> 0, unit |-> "?"], "assert_system", 0, 0, NoBranches)>>

\* the entries a scenario is made of: each action of the catalogue that
\* needs no SUT, expect_tool_call for tool "get_weather" with timeout_ms 0
\* and 1000 and no args_contain, wait with duration_ms 1000
Entries ==
    {Entry(at, a, 0, 0, NoBranches) : at \in EntryTimes, a \in {"assert_system", "set_network"}}
    \cup {Entry(at, "wait", 1000, 0, NoBranches) : at \in EntryTimes}
    \cup {Entry(at, "expect_tool_call", 0, t, NoBranches) : at \in EntryTimes, t \in {0, 1000}}
    \cup {Entry(at, "conditional", 0, 0, b) :
             at \in EntryTimes, b \in {NoBranches, [default |-> BranchEntries]}}
    \cup {Entry(DefaultAt, "conditional", 0, 0, [default |-> BadBranchEntries])}

\* scenario["timeline"]: at most MaxEvents entries
Scenarios == UNION {[1..n -> Entries] : n \in 0..MaxEvents}

\* TimelineEvent order: by (timestamp, _seq)
EventLess(e, f) ==
    \/ e.timestamp < f.timestamp
    \/ e.timestamp = f.timestamp /\ e.seq < f.seq

\* self.timeline.get(): the least event of the queue
NextEvent == CHOOSE e \in timeline : \A f \in timeline : f = e \/ EventLess(e, f)

\* _enqueue_timeline: the events put for a list of entries when the counter
\* is at seq0
Enqueued(entries, seq0) ==
    {[timestamp |-> ParseTime(entries[i].at), seq |-> seq0 + i,
      action |-> entries[i].action, duration_ms |-> entries[i].duration_ms,
      timeout_ms |-> entries[i].timeout_ms, branches |-> entries[i].branches]
        : i \in 1..Len(entries)}

\* _eval_condition
EvalConditionOther == "other"
EvalCondition == "default"

\* _enqueue_timeline stops at the first entry whose "at" does not parse:
\* the entries before it have been put in the queue
RECURSIVE GoodPrefix(_)
GoodPrefix(entries) ==
    IF entries = <<>> \/ ParseRaises(Head(entries).at)
    THEN <<>>
    ELSE <<Head(entries)>> \o GoodPrefix(Tail(entries))

\* the AssertionResult run adds when _dispatch raised
ExceptionResultPassed(event) ==
    [timestamp |-> event.timestamp, passed |-> TRUE, description |-> "Exception",
     expected |-> None, actual |-> None]
ExceptionResult(event) ==
    [timestamp |-> event.timestamp, passed |-> FALSE, description |-> "Exception",
     expected |-> None, actual |-> None]

\* TestResults.add: self.assertions.append(result)
AddedAlone(list, result) == <<result>>
Added(list, result) == Append(list, result)

\* register_layer(name, layer), before a run
RegisterLayer(name) ==
    /\ run.pc = "idle"
    /\ name \notin layers
    /\ layers' = layers \cup {name}
    /\ UNCHANGED <<clockVars, toolVars, timeline, seq, run, assertions, dispatched, sysVars>>

\* the loss rates a NetworkSimulator is constructed with, in percent
LossRates == {0, 50, 100}

\* register_layer("network", NetworkSimulator(loss_rate = loss)), before a run
RegisterNetwork(loss) ==
    /\ run.pc = "idle"
    /\ "network" \notin layers
    /\ layers' = layers \cup {"network"}
    /\ loss_rate' = loss
    /\ UNCHANGED <<clockVars, toolVars, timeline, seq, run, assertions, dispatched>>
    /\ UNCHANGED <<system, collector, speak, stream, adapter_calls, nemitted,
                   responses, first_byte_latencies, tool_calls>>
    /\ UNCHANGED <<barge_in, auxVars>>

\* the run task is suspended, or there is none: other tasks can run
RunSuspended ==
    run.pc \in {"idle", "in_wait", "speaking", "barging", "interrupting",
                "awaiting_collector",
                "returned", "cancelled"}

\* asyncio.create_task(self._collect_responses(...)): the task is created
\* and has not run yet, so no method of the adapter has been invoked
CallsAfterCreateEager(calls) == Append(calls, [op |-> "get_response_stream"])
CallsAfterCreate(calls) == calls

\* run(scenario, system) up to the dispatch loop: enqueue the timeline,
\* start with empty results, create the response collector if there is a
\* system
RunStartBody(scenario, sys) ==
    /\ timeline' = timeline \cup Enqueued(scenario, seq)
    /\ seq' = seq + Len(scenario)
    /\ assertions' = <<>>
    /\ responses' = <<>>
    /\ first_byte_latencies' = <<>>
    /\ tool_calls' = <<>>
    /\ dispatched' = <<>>
    /\ run' = [RunIdle EXCEPT !.pc = "loop"]
    /\ system' = sys
    /\ collector' = IF sys THEN [pc |-> "created", cancel |-> FALSE] ELSE NoCollector
    /\ adapter_calls' = IF sys THEN CallsAfterCreate(adapter_calls) ELSE adapter_calls
    /\ barge_in' = NoBargeIn
    /\ UNCHANGED <<clockVars, toolVars, layers, speak, stream, nemitted, loss_rate>>

RunStartCore(scenario, sys) ==
    /\ run.pc = "idle"
    /\ RunStartBody(scenario, sys)
    /\ UNCHANGED auxVars

\* run(scenario), without a system
RunStart(scenario) == RunStartCore(scenario, FALSE)

\* run(scenario) for one of a set of scenarios
RunWithoutSystem(scenarios) ==
    /\ run.pc = "idle"
    /\ \E scenario \in scenarios : RunStart(scenario)

\* run is called with a scenario
RunScenario ==
    /\ run.pc = "idle"
    /\ \E scenario \in Scenarios : RunStart(scenario)

\* set_profile(params.get("profile", "perfect")): the loss of the profile
\* "perfect", in percent
ProfileLoss == 0

\* where the run task is after `await self._dispatch(event, ...)` has begun:
\* suspended in the handler of the event, or back in the loop
PcBackInLoop(waits, speaks, barges) == "loop"
PcAfterDispatch(waits, speaks, barges) ==
    IF waits THEN "in_wait"
    ELSE IF speaks THEN "speaking"
    ELSE IF barges THEN "barging" ELSE "loop"

\* one iteration of the dispatch loop, up to its first suspension point:
\* get the event, advance the clock to its timestamp, dispatch it
DispatchEvent ==
    /\ run.pc = "loop"
    /\ timeline # {}
    /\ LET event == NextEvent
           entry == AdvancedTo(current, event.timestamp)
           final == IF event.action = "wait"
                    THEN AdvancedTo(entry, entry + event.duration_ms \div 1000)
                    ELSE entry
           branch == EvalCondition
           entries == IF event.action = "conditional" /\ branch \in DOMAIN event.branches
                      THEN event.branches[branch] ELSE <<>>
           added == GoodPrefix(entries)
           raised == Len(added) < Len(entries)
           tool == "get_weather"
           waits == event.action = "expect_tool_call" /\ "tools" \in layers
           speaks == event.action = "user_speak" /\ "audio" \in layers
           barges == event.action = "barge_in" /\ "barge_in" \in layers /\ system
       IN  /\ IF final = current
              THEN UNCHANGED <<current, waiters, evset>>
              ELSE SetAndWake(final)
           /\ timeline' = (timeline \ {event}) \cup Enqueued(added, seq)
           /\ seq' = seq + Len(added)
           /\ run' = [pc |-> PcAfterDispatch(waits, speaks, barges),
                      event |-> event, nowBefore |-> current, entryNow |-> entry,
                      hadCall |-> MatchingCalls(call_log, tool) # <<>>]
           /\ assertions' =
                 IF event.action = "assert_system"
                 THEN Added(assertions,
                        [timestamp |-> event.timestamp, passed |-> TRUE,
                         description |-> "assert_system", expected |-> EmptyDict,
                         actual |-> EmptyDict])
                 ELSE IF raised
                      THEN Added(assertions, ExceptionResult(event))
                      ELSE assertions
           /\ dispatched' = Append(dispatched, [event |-> event, raised |-> raised])
           /\ IF waits
              THEN WaitRegisterCore("disp", tool, NoneArgs, event.timeout_ms \div 1000)
              ELSE UNCHANGED toolVars
           /\ \E total \in IF speaks THEN 0..MaxChunks ELSE {0} :
                 speak' = IF speaks
                          THEN [utt |-> event.seq, total |-> total, next |-> 1,
                                outcomes |-> <<>>]
                          ELSE speak
           /\ loss_rate' = IF event.action = "set_network" /\ "network" \in layers
                           THEN ProfileLoss ELSE loss_rate
    /\ UNCHANGED <<realtime, adv, cw, layers>>
    /\ UNCHANGED <<system, collector, stream, adapter_calls, nemitted,
                   responses, first_byte_latencies, tool_calls>>
    /\ UNCHANGED <<barge_in, auxVars>>

\* the timeout of the dispatcher's wait_for_call elapses
RunTimerFire ==
    /\ run.pc = "in_wait"
    /\ TimerFireCore("disp")
    /\ UNCHANGED <<clockVars, runVars>>

\* the dispatcher's wait_for_call returns its result, which is added to the
\* results, and the loop goes on
RunWaitReturns ==
    /\ run.pc = "in_wait"
    /\ WaitTimeoutCore("disp") \/ WaitSignalledCore("disp")
    /\ assertions' = Added(assertions, wst'["disp"].res)
    /\ run' = [run EXCEPT !.pc = "loop"]
    /\ UNCHANGED <<clockVars, timeline, seq, layers, dispatched, sysVars>>

\* the queue is empty: run returns the results, or, with a collector,
\* cancels it and awaits its exit
RunReturn ==
    /\ run.pc = "loop"
    /\ timeline = {}
    /\ run' = [run EXCEPT !.pc = IF collector.pc = "none"
                                 THEN "returned" ELSE "awaiting_collector"]
    /\ collector' = IF collector.pc = "none"
                    THEN collector ELSE [collector EXCEPT !.cancel = TRUE]
    /\ UNCHANGED <<clockVars, toolVars, timeline, seq, assertions, layers, dispatched>>
    /\ UNCHANGED <<system, speak, stream, adapter_calls, nemitted,
                   responses, first_byte_latencies, tool_calls, loss_rate>>
    /\ UNCHANGED <<barge_in, auxVars>>

\* the SUT adapter calls the tools layer while the run task is suspended
SutCall(h, name, args) == RunSuspended /\ HandleCall(h, name, args)
SutCallWake(h) == RunSuspended /\ HandleCallWake(h)

(* ---------------- the response collector and the SUT ------------------- *)

\* ResponseEventType
ResponseEventTypes ==
    {"audio", "text", "tool_call", "tool_result", "state_change", "error"}
\* the timestamps the adapter gives its ResponseEvents
SutTimes == {0, 1}

\* the adapter queues a ResponseEvent for its response stream; id stands for
\* the event's payload (text, audio, tool_name, tool_args)
SutEmit(type, ts) ==
    /\ RunSuspended
    /\ system
    /\ nemitted < MaxSutEvents
    /\ nemitted' = nemitted + 1
    /\ stream' = Append(stream, [type |-> type, timestamp |-> ts, id |-> nemitted + 1])
    /\ UNCHANGED <<clockVars, toolVars, timeline, seq, run, assertions, layers, dispatched>>
    /\ UNCHANGED <<system, collector, speak, adapter_calls,
                   responses, first_byte_latencies, tool_calls, loss_rate>>
    /\ UNCHANGED <<barge_in, auxVars>>

\* the first step of the collector task, taken when the run task is
\* suspended: _collect_responses calls system.get_response_stream() and
\* waits for its first event
CollectorStart ==
    /\ RunSuspended
    /\ collector = [pc |-> "created", cancel |-> FALSE]
    /\ collector' = [collector EXCEPT !.pc = "running"]
    /\ adapter_calls' = Append(adapter_calls, [op |-> "get_response_stream"])
    /\ UNCHANGED <<clockVars, toolVars, timeline, seq, run, assertions, layers, dispatched>>
    /\ UNCHANGED <<system, speak, stream, nemitted,
                   responses, first_byte_latencies, tool_calls, loss_rate>>
    /\ UNCHANGED <<barge_in, auxVars>>

\* the kinds of event _collect_responses records in results.responses, in
\* latency.first_byte_latencies and in results.tool_calls.calls
RecordsLatencyOfText(e) == e.type \in {"audio", "text"}
RecordsResponse(e) == e.type \in {"text", "audio"}
RecordsLatency(e) == e.type = "audio"
RecordsToolCall(e) == e.type = "tool_call"

\* record_response: the ResponseRecord of an event
ResponseRecord(e) == [kind |-> e.type, timestamp |-> e.timestamp, id |-> e.id]
\* record_tool_call: the ToolCallRecord of an event
ToolCallRecord(e) == [timestamp |-> e.timestamp, success |-> TRUE, id |-> e.id]
\* ts * 1000
FirstByteLatency(e) == e.timestamp * 1000

\* one iteration of the collector's loop: take the next event of the stream
\* and record it by its type
Collect ==
    /\ RunSuspended
    /\ collector = [pc |-> "running", cancel |-> FALSE]
    /\ stream # <<>>
    /\ LET e == Head(stream)
       IN  /\ stream' = Tail(stream)
           /\ responses' = IF RecordsResponse(e)
                           THEN Append(responses, ResponseRecord(e)) ELSE responses
           /\ first_byte_latencies' =
                 IF RecordsLatency(e)
                 THEN Append(first_byte_latencies, FirstByteLatency(e))
                 ELSE first_byte_latencies
           /\ tool_calls' = IF RecordsToolCall(e)
                            THEN Append(tool_calls, ToolCallRecord(e)) ELSE tool_calls
    /\ UNCHANGED <<clockVars, toolVars, timeline, seq, run, assertions, layers, dispatched>>
    /\ UNCHANGED <<system, collector, speak, adapter_calls, nemitted, loss_rate>>
    /\ UNCHANGED <<barge_in, auxVars>>

\* the collector task's next step after response_task.cancel(): a task that
\* has not started never runs its body, a running one gets CancelledError at
\* its await and returns
CollectorExit ==
    /\ RunSuspended
    /\ collector.cancel
    /\ collector.pc \in {"created", "running"}
    /\ collector' = [collector EXCEPT !.pc = "exited"]
    /\ UNCHANGED <<clockVars, toolVars, timeline, seq, run, assertions, layers, dispatched>>
    /\ UNCHANGED <<system, speak, stream, adapter_calls, nemitted,
                   responses, first_byte_latencies, tool_calls, loss_rate>>
    /\ UNCHANGED <<barge_in, auxVars>>

\* await response_task ends: run returns the results
RunReturned ==
    /\ run.pc = "awaiting_collector"
    /\ collector.pc = "exited"
    /\ run' = [run EXCEPT !.pc = "returned"]
    /\ UNCHANGED <<clockVars, toolVars, timeline, seq, assertions, layers, dispatched, sysVars>>

\* the task running run(...) is cancelled while the dispatch of an
\* expect_tool_call is suspended in wait_for_call: CancelledError is not an
\* Exception, so it leaves the dispatch loop and run; the statements after
\* the loop are not executed
RunCancelled ==
    /\ run.pc = "in_wait"
    /\ WaitCancelledCore("disp")
    /\ run' = [run EXCEPT !.pc = "cancelled"]
    /\ UNCHANGED <<clockVars, timeline, seq, assertions, layers, dispatched, sysVars>>

(* ------------------------ successive runs ------------------------------ *)

\* most calls of run() on one orchestrator
MaxRuns == 2

\* scenarios of assert_system, wait (1000 ms) and conditional (one default
\* branch entry at 0s), at 0s and at 1000ms
RerunScenarios ==
    UNION {[1..n -> {Entry(at, "assert_system", 0, 0, NoBranches) : at \in EntryTimes}
                    \cup {Entry(at, "wait", 1000, 0, NoBranches) : at \in EntryTimes}
                    \cup {Entry(at, "conditional", 0, 0, [default |-> BranchEntries])
                             : at \in EntryTimes}]
              : n \in 0..MaxEvents}

\* run() has returned and the caller calls run(scenario) again on the same
\* orchestrator: __init__ is not run again, so timeline, clock and _seq are
\* the ones the previous run left
RunAgain ==
    /\ run.pc = "returned"
    /\ last_run.count + 2 <= MaxRuns
    /\ \E scenario \in RerunScenarios : RunStartBody(scenario, FALSE)
    /\ last_run' = [count |-> last_run.count + 1, final |-> current, seq |-> seq]
    /\ UNCHANGED <<fn_args, fn_result, adapterVars, pipeVars, netVars>>

RerunNext ==
    \/ RunWithoutSystem(RerunScenarios)
    \/ DispatchEvent
    \/ RunReturn
    \/ RunAgain

RerunInit == ClockAtRest /\ ToolInit /\ OrchInit /\ AuxIdle

\* run() called again and again on one orchestrator
SpecRerun == RerunInit /\ [][RerunNext]_vars

(* ------------------------- user_speak ---------------------------------- *)

\* NetworkSimulator.apply on a connected simulator: the chunk is lost when
\* random.random() < loss_rate, random.random() being in [0, 1)
ApplyOutcomesLossy(loss) == {"DROP", "pass"}
ApplyOutcomes(loss) ==
    IF loss = 0 THEN {"pass"}
    ELSE IF loss = 100 THEN {"DROP"}
    ELSE {"DROP", "pass"}

\* `if chunk is None: continue`: a chunk goes on to push_audio unless apply
\* returned DROP
ForwardedAlways(outcome) == TRUE
Forwarded(outcome) == outcome # "DROP"

\* system.push_audio(chunk) for the chunk-th chunk of utterance utt, after
\* mix_with_speech (mixed) and apply (applied)
PushAudio(utt, chunk, mixed, applied) ==
    [op |-> "push_audio", utt |-> utt, chunk |-> chunk,
     mixed |-> mixed, applied |-> applied]
\* system.commit_audio() of utterance utt
CommitAudio(utt) == [op |-> "commit_audio", utt |-> utt]

\* one iteration of `async for chunk in audio_layer.generate(...)`: with a
\* system, the chunk is mixed if there is an environment layer, goes through
\* apply if there is a network layer, and is pushed unless it was dropped
SpeakChunk ==
    /\ run.pc = "speaking"
    /\ speak.next <= speak.total
    /\ \E outcome \in IF system /\ "network" \in layers
                       THEN ApplyOutcomes(loss_rate) ELSE {"none"} :
          /\ speak' = [speak EXCEPT !.next = speak.next + 1,
                                    !.outcomes = Append(speak.outcomes, outcome)]
          /\ adapter_calls' =
                IF system /\ Forwarded(outcome)
                THEN Append(adapter_calls,
                            PushAudio(speak.utt, speak.next,
                                      "environment" \in layers, "network" \in layers))
                ELSE adapter_calls
    /\ UNCHANGED <<clockVars, toolVars, timeline, seq, run, assertions, layers, dispatched>>
    /\ UNCHANGED <<system, collector, stream, nemitted,
                   responses, first_byte_latencies, tool_calls, loss_rate>>
    /\ UNCHANGED <<barge_in, auxVars>>

\* the stream of chunks has ended: commit_audio if there is a system, and
\* the dispatch loop goes on
SpeakEnd ==
    /\ run.pc = "speaking"
    /\ speak.next > speak.total
    /\ adapter_calls' = IF system THEN Append(adapter_calls, CommitAudio(speak.utt))
                        ELSE adapter_calls
    /\ run' = [run EXCEPT !.pc = "loop"]
    /\ UNCHANGED <<clockVars, toolVars, timeline, seq, assertions, layers, dispatched>>
    /\ UNCHANGED <<system, collector, speak, stream, nemitted,
                   responses, first_byte_latencies, tool_calls, loss_rate>>
    /\ UNCHANGED <<barge_in, auxVars>>

\* the SUT has received audio
HasReceivedAudio ==
    \E i \in 1..Len(adapter_calls) : adapter_calls[i].op = "push_audio"

\* a SUT that responds to received audio only emits an event
SutRespond(type, ts) == HasReceivedAudio /\ SutEmit(type, ts)

(* --------------------------- barge_in ---------------------------------- *)

\* BargeInSimulator.simulate is at run.pc = "barging" while it waits for its
\* trigger and at run.pc = "interrupting" afterwards
\* _wait_trigger("keyword_detected", system.get_response_stream()): the
\* wait for one event of the response stream, which takes the event
BargeTriggerEvent ==
    /\ run.pc = "barging"
    /\ stream # <<>>
    /\ stream' = Tail(stream)
    /\ run' = [run EXCEPT !.pc = "interrupting"]
    /\ adapter_calls' = Append(adapter_calls, [op |-> "get_response_stream"])
    /\ UNCHANGED <<clockVars, toolVars, timeline, seq, assertions, layers, dispatched>>
    /\ UNCHANGED <<system, collector, speak, nemitted, responses,
                   first_byte_latencies, tool_calls, barge_in, loss_rate, auxVars>>

\* asyncio.wait_for(..., timeout=5) ends the wait for an event
TriggerUncapped == FALSE
TriggerCapped == TRUE

\* the 5 s of asyncio.wait_for pass without an event
BargeTriggerTimeout ==
    /\ run.pc = "barging"
    /\ TriggerCapped
    /\ stream = <<>>
    /\ run' = [run EXCEPT !.pc = "interrupting"]
    /\ adapter_calls' = Append(adapter_calls, [op |-> "get_response_stream"])
    /\ UNCHANGED <<clockVars, toolVars, timeline, seq, assertions, layers, dispatched>>
    /\ UNCHANGED <<system, collector, speak, stream, nemitted, responses,
                   first_byte_latencies, tool_calls, barge_in, loss_rate, auxVars>>

\* InterruptEvent.timestamp: self._now(), the clock's time, register_layer
\* having given the layer the clock
InterruptTimestampUnset(now) == 0
InterruptTimestamp(now) == now

\* after the reaction delay and the generation of the interruption audio
\* simulate returns its InterruptEvent, and _dispatch records it
BargeEnd ==
    /\ run.pc = "interrupting"
    /\ barge_in' = [was_handled |-> TRUE,
                    response_latency |-> InterruptTimestamp(current)]
    /\ run' = [run EXCEPT !.pc = "loop"]
    /\ UNCHANGED <<clockVars, toolVars, timeline, seq, assertions, layers, dispatched>>
    /\ UNCHANGED <<system, collector, speak, stream, adapter_calls, nemitted,
                   responses, first_byte_latencies, tool_calls, loss_rate, auxVars>>

\* run(scenario, system) for one of the given scenarios
RunWithSystem(scenarios) ==
    /\ run.pc = "idle"
    /\ \E scenario \in scenarios : RunStartCore(scenario, TRUE)

\* scenarios of assert_system at 0s and expect_tool_call (timeout_ms 1000)
\* at 0s and at 1000ms
CollectScenarios ==
    UNION {[1..n -> {Entry(DefaultAt, "assert_system", 0, 0, NoBranches)}
                    \cup {Entry(at, "expect_tool_call", 0, 1000, NoBranches)
                             : at \in EntryTimes}]
              : n \in 0..MaxEvents}

CollectNext ==
    \/ RegisterLayer("tools")
    \/ RunWithSystem(CollectScenarios)
    \/ DispatchEvent
    \/ RunTimerFire
    \/ RunWaitReturns
    \/ RunReturn
    \/ CollectorStart
    \/ \E type \in ResponseEventTypes, ts \in SutTimes : SutEmit(type, ts)
    \/ Collect
    \/ CollectorExit
    \/ RunReturned
    \/ RunCancelled

CollectInit == ClockAtRest /\ ToolInit /\ OrchInit /\ AuxIdle

\* runs with a system whose events the collector records
SpecCollect == CollectInit /\ [][CollectNext]_vars

\* scenarios of user_speak and set_network at 0s
SpeakScenarios ==
    UNION {[1..n -> {Entry(DefaultAt, "user_speak", 0, 0, NoBranches),
                     Entry(DefaultAt, "set_network", 0, 0, NoBranches)}]
              : n \in 0..MaxEvents}

\* the kind of event the SUT answers received audio with
AnswerTypes == {"audio"}

SpeakNext ==
    \/ RegisterLayer("audio")
    \/ RegisterLayer("environment")
    \/ \E loss \in LossRates : RegisterNetwork(loss)
    \/ RunWithSystem(SpeakScenarios)
    \/ DispatchEvent
    \/ SpeakChunk
    \/ SpeakEnd
    \/ RunReturn
    \/ CollectorStart
    \/ \E type \in AnswerTypes : SutRespond(type, 1)
    \/ Collect
    \/ CollectorExit
    \/ RunReturned

SpeakInit == ClockAtRest /\ ToolInit /\ OrchInit /\ AuxIdle

\* runs with a system that the utterances of user_speak are pushed to
SpecSpeak == SpeakInit /\ [][SpeakNext]_vars

\* scenarios of barge_in (pattern eager_interrupt) at 0s, 1000ms and 2s and
\* expect_tool_call (timeout_ms 1000) at 0s
BargeTimes == EntryTimes \cup {[num |-> 2, unit |-> "s"]}
BargeScenarios ==
    UNION {[1..n -> {Entry(at, "barge_in", 0, 0, NoBranches) : at \in BargeTimes}
                    \cup {Entry(DefaultAt, "expect_tool_call", 0, 1000, NoBranches)}]
              : n \in 0..MaxEvents}

\* the kinds of event the SUT emits in these runs
BargeEventTypes == {"audio", "tool_call"}

BargeNext ==
    \/ RegisterLayer("tools")
    \/ RegisterLayer("barge_in")
    \/ RunWithSystem(BargeScenarios)
    \/ DispatchEvent
    \/ RunTimerFire
    \/ RunWaitReturns
    \/ BargeTriggerEvent
    \/ BargeTriggerTimeout
    \/ BargeEnd
    \/ RunReturn
    \/ CollectorStart
    \/ \E type \in BargeEventTypes : SutEmit(type, 0)
    \/ Collect
    \/ CollectorExit
    \/ RunReturned

BargeInit == ClockAtRest /\ ToolInit /\ OrchInit /\ AuxIdle

\* runs of scenarios with barge_in events, with a system
SpecBarge == BargeInit /\ [][BargeNext]_vars

\* the steps of the task that runs run(...), of the timers it waits on and
\* of the cancelled collector task, which the event loop runs when they are
\* ready
RunProgress ==
    \/ DispatchEvent
    \/ RunTimerFire
    \/ RunWaitReturns
    \/ BargeTriggerEvent
    \/ BargeTriggerTimeout
    \/ BargeEnd
    \/ RunReturn
    \/ CollectorExit
    \/ RunReturned

\* the same runs under an event loop that runs every ready task; the SUT
\* may emit events or not
SpecBargeLive == SpecBarge /\ WF_vars(RunProgress)

RunNext ==
    \/ RegisterLayer("tools")
    \/ RunScenario
    \/ DispatchEvent
    \/ RunTimerFire
    \/ RunWaitReturns
    \/ RunReturn
    \/ \E h \in Handlers : SutCall(h, "get_weather", [location |-> "NYC"])
    \/ \E h \in Handlers : SutCallWake(h)

RunInit == ClockAtRest /\ ToolInit /\ OrchInit /\ AuxIdle

SpecRun == RunInit /\ [][RunNext]_vars

(* ---------------- ToolCallResults.assert_call_order -------------------- *)

\* most tool names passed to assert_call_order, most recorded calls
MaxOrderNames == 2
MaxOrderLog == 3

\* every variable of the orchestrator, its layers and the SUT
progVars == <<clockVars, toolVars, timeline, seq, run, assertions, layers,
              dispatched, system, collector, speak, stream, adapter_calls,
              nemitted, responses, first_byte_latencies, tool_calls, barge_in,
              loss_rate>>

\* the tool names of recorded calls and of expectations
OrderTools == {"a", "b", "c"}

\* `idx += 1` after a match: the search for the next name starts after the
\* call just matched
SameIndex(idx) == idx
NextIndex(idx) == idx + 1

\* the inner while loop: the first index from idx on at which actual holds
\* expected, or 0 when the loop runs off the end (the else branch)
RECURSIVE FirstIndexFrom(_, _, _)
FirstIndexFrom(actual, expected, idx) ==
    IF idx > Len(actual) THEN 0
    ELSE IF actual[idx] = expected THEN idx
    ELSE FirstIndexFrom(actual, expected, idx + 1)

\* the for loop of assert_call_order, from index idx of actual (1-based)
RECURSIVE AssertCallOrderFrom(_, _, _)
AssertCallOrderFrom(tool_names, actual, idx) ==
    IF tool_names = <<>> THEN TRUE
    ELSE LET found == FirstIndexFrom(actual, Head(tool_names), idx)
         IN  IF found = 0 THEN FALSE
             ELSE AssertCallOrderFrom(Tail(tool_names), actual, NextIndex(found))

\* assert_call_order(*tool_names) on calls whose tools are actual
AssertCallOrder(tool_names, actual) == AssertCallOrderFrom(tool_names, actual, 1)

\* sequences over S of length at most n
SeqsUpTo(S, n) == UNION {[1..k -> S] : k \in 0..n}

\* a ToolCallResults with some recorded calls, and the names of a call of
\* assert_call_order
CallOrderInit ==
    /\ ClockAtRest /\ ToolInit /\ OrchInit
    /\ AdapterNew("custom") /\ ExtraIdle
    /\ fn_args \in {[fn |-> "assert_call_order", tool_names |-> n, actual |-> a] :
                      n \in SeqsUpTo(OrderTools, MaxOrderNames),
                      a \in SeqsUpTo(OrderTools, MaxOrderLog)}
    /\ fn_result = None

\* the call of assert_call_order
CallAssertCallOrder ==
    /\ fn_result = None
    /\ fn_args.fn = "assert_call_order"
    /\ fn_result' = [value |-> AssertCallOrder(fn_args.tool_names, fn_args.actual)]
    /\ UNCHANGED <<progVars, adapterVars, extraVars, fn_args>>

SpecCallOrder == CallOrderInit /\ [][CallAssertCallOrder]_vars

(* --------------- ToolCallAsserter.assert_call_order -------------------- *)

\* actual_order = [c["tool"] for c in self.call_log]
ToolsOf(log) == [i \in 1..Len(log) |-> log[i].tool]

\* `idx += 1` before the break: the search for the next name starts after
\* the call just matched
AsserterStays(idx) == idx
AsserterStep(idx) == idx + 1

\* the inner while loop from idx (1-based): found and idx when it ends
RECURSIVE AsserterScan(_, _, _)
AsserterScan(actual_order, expected, idx) ==
    IF ~(idx <= Len(actual_order)) THEN [found |-> FALSE, idx |-> idx]
    ELSE IF actual_order[idx] = expected
         THEN [found |-> TRUE, idx |-> AsserterStep(idx)]
         ELSE AsserterScan(actual_order, expected, idx + 1)

\* the for loop: whether AssertionError is raised
RECURSIVE AsserterRaisesFrom(_, _, _)
AsserterRaisesFrom(tool_names, actual_order, idx) ==
    IF tool_names = <<>> THEN FALSE
    ELSE LET scan == AsserterScan(actual_order, Head(tool_names), idx)
         IN  IF ~scan.found THEN TRUE
             ELSE AsserterRaisesFrom(Tail(tool_names), actual_order, scan.idx)

\* ToolCallAsserter.assert_call_order(*tool_names) on a registry whose
\* call_log is log: TRUE when it raises
AsserterCallOrderRaises(tool_names, log) ==
    AsserterRaisesFrom(tool_names, ToolsOf(log), 1)

\* the call_log entry of a call of tool t
LogEntry(t) == [tool |-> t, args |-> EmptyDict]

\* a call of either checker: the names, and the tools of the calls in the
\* registry's call_log or in ToolCallResults.calls
AsserterInit ==
    /\ ClockAtRest /\ ToolInit /\ OrchInit
    /\ AdapterNew("custom") /\ ExtraIdle
    /\ fn_args \in {[fn |-> f, tool_names |-> n, actual |-> a] :
                      f \in {"assert_call_order", "asserter.assert_call_order"},
                      n \in SeqsUpTo(OrderTools, MaxOrderNames),
                      a \in SeqsUpTo(OrderTools, MaxOrderLog)}
    /\ fn_result = None

\* the call of ToolCallAsserter.assert_call_order
CallAsserterCallOrder ==
    /\ fn_result = None
    /\ fn_args.fn = "asserter.assert_call_order"
    /\ fn_result' =
          [raised |-> AsserterCallOrderRaises(fn_args.tool_names,
                         [i \in 1..Len(fn_args.actual) |-> LogEntry(fn_args.actual[i])])]
    /\ UNCHANGED <<progVars, adapterVars, extraVars, fn_args>>

CheckerNext == CallAssertCallOrder \/ CallAsserterCallOrder

SpecCheckers == AsserterInit /\ [][CheckerNext]_vars

(* ------------- the audio pipeline of user_speak, run twice ------------- *)

\* the seeds given to random.seed before a run
Seeds == {1, 2}
\* the samples of the TTS back-end's audio, one per chunk
SpeechSamples == {0, 1000}
\* AmbientProfile.next_chunk's amplitude, int(10 ** (-abs(snr_db) / 20) * 32767),
\* scaled down
AmbientAmplitude == 1

\* np.random.default_rng().integers(-amplitude, amplitude): a generator
\* constructed without a seed draws its state from the operating system, so
\* any value of the range can come out, whatever random.seed was given
AmbientNoise == -AmbientAmplitude .. AmbientAmplitude - 1

\* np.clip(mixed, -32768, 32767)
Clip(x) == IF x < -32768 THEN -32768 ELSE IF x > 32767 THEN 32767 ELSE x

\* mix_with_speech without active transients: speech plus ambient noise
MixWithSpeech(speech, noise) == Clip(speech + noise)

\* random.random() of the seeded module generator, in percent: a function of
\* the seed and of the number of draws made before
SeededRandom(seed, k) == (seed * 37 + k * 61) % 100

\* NetworkSimulator.PROFILES["perfect"]["loss"], in percent
PerfectLoss == 0

\* net.apply returns None: random.random() < self.loss_rate
PacketLost(seed, k) == SeededRandom(seed, k) < PerfectLoss

\* the scenarios (the audio of one user_speak), the seed and whether an
\* environment layer is registered next to the audio and network layers
PipeInit ==
    /\ ClockAtRest /\ ToolInit /\ OrchInit
    /\ fn_args = None /\ fn_result = None /\ AdapterNew("custom")
    /\ audio_run \in {[seed |-> sd, speech |-> sp, env |-> e, run |-> 1,
                       next |-> 1, draws |-> 0] :
                         sd \in Seeds, sp \in SeqsUpTo(SpeechSamples, MaxChunks),
                         e \in BOOLEAN}
    /\ pushed = <<<<>>, <<>>>>
    /\ NetIdle /\ HistIdle

PipeFrame == UNCHANGED <<progVars, fn_args, fn_result, adapterVars, netVars, histVars>>

\* one iteration of the user_speak loop of _dispatch: the chunk of the audio
\* layer is mixed with the environment's noise, passed through the network
\* and pushed to the system; apply draws random.random() and random.gauss
PipeChunk ==
    /\ audio_run.next <= Len(audio_run.speech)
    /\ \E noise \in AmbientNoise :
          LET speech == audio_run.speech[audio_run.next]
              chunk == IF audio_run.env THEN MixWithSpeech(speech, noise) ELSE speech
          IN  pushed' = IF PacketLost(audio_run.seed, audio_run.draws)
                        THEN pushed
                        ELSE [pushed EXCEPT ![audio_run.run] = Append(@, chunk)]
    /\ audio_run' = [audio_run EXCEPT !.next = @ + 1, !.draws = @ + 2]
    /\ PipeFrame

\* the first run is over; the second starts with the same scenario, the
\* same layers and the generator seeded again with the same seed
PipeSecondRun ==
    /\ audio_run.run = 1
    /\ audio_run.next > Len(audio_run.speech)
    /\ audio_run' = [audio_run EXCEPT !.run = 2, !.next = 1, !.draws = 0]
    /\ UNCHANGED pushed
    /\ PipeFrame

PipeNext == PipeChunk \/ PipeSecondRun

SpecPipe == PipeInit /\ [][PipeNext]_vars

(* ------------------------- NetworkSimulator ---------------------------- *)

\* most calls of apply
MaxApplies == 3

NetFrame == UNCHANGED <<progVars, fn_args, fn_result, adapterVars, pipeVars, histVars>>

\* apply(chunk) up to its first suspension point or its return: while
\* disconnected the chunk is buffered and None returned; else the chunk is
\* lost (None) or apply sleeps for the latency
NetApplyCall ==
    /\ net_apply.pc = "idle"
    /\ Len(net_log) < MaxApplies
    /\ LET chunk == Len(net_log) + 1
       IN  IF ~is_connected
           THEN /\ net_buffer' = Append(net_buffer, chunk)
                /\ net_log' = Append(net_log, [chunk |-> chunk, connected |-> FALSE,
                                              result |-> 0, slept |-> FALSE])
                /\ UNCHANGED net_apply
           ELSE \E lost \in BOOLEAN :
                   IF lost
                   THEN /\ net_log' = Append(net_log, [chunk |-> chunk, connected |-> TRUE,
                                                      result |-> 0, slept |-> FALSE])
                        /\ UNCHANGED <<net_apply, net_buffer>>
                   ELSE /\ net_apply' = [pc |-> "sleeping", chunk |-> chunk]
                        /\ UNCHANGED <<net_log, net_buffer>>
    /\ UNCHANGED <<is_connected, outage>>
    /\ NetFrame

\* the sleep of apply ends and it returns the chunk it was given
NetApplyReturn ==
    /\ net_apply.pc = "sleeping"
    /\ net_log' = Append(net_log, [chunk |-> net_apply.chunk, connected |-> TRUE,
                                  result |-> net_apply.chunk, slept |-> TRUE])
    /\ net_apply' = NoApply
    /\ UNCHANGED <<is_connected, net_buffer, outage>>
    /\ NetFrame

\* simulate_disconnect(duration_s) up to its sleep
OutageStart(o) ==
    /\ outage[o] = "idle"
    /\ outage' = [outage EXCEPT ![o] = "sleeping"]
    /\ is_connected' = FALSE
    /\ UNCHANGED <<net_buffer, net_apply, net_log>>
    /\ NetFrame

\* _flush_buffer: self._buffer.clear()
FlushKeeps(buffer) == buffer
FlushBuffer(buffer) == <<>>

\* the sleep of simulate_disconnect ends: connected again, buffer flushed
OutageEnd(o) ==
    /\ outage[o] = "sleeping"
    /\ outage' = [outage EXCEPT ![o] = "done"]
    /\ is_connected' = TRUE
    /\ net_buffer' = FlushBuffer(net_buffer)
    /\ UNCHANGED <<net_apply, net_log>>
    /\ NetFrame

NetNext ==
    \/ NetApplyCall
    \/ NetApplyReturn
    \/ \E o \in OutageTasks : OutageStart(o)
    \/ \E o \in OutageTasks : OutageEnd(o)

NetInit ==
    /\ ClockAtRest /\ ToolInit /\ OrchInit
    /\ fn_args = None /\ fn_result = None /\ AdapterNew("custom")
    /\ PipeIdle /\ NetIdle /\ HistIdle

SpecNet == NetInit /\ [][NetNext]_vars

(* ------------------------------ scorers -------------------------------- *)

\* most assertions of a TestResults handed to a scorer
MaxScored == 2

\* floats are modelled as exact fractions with a positive denominator
Frac(n, d) == [num |-> n, den |-> d]
RECURSIVE Gcd(_, _)
Gcd(a, b) == IF b = 0 THEN a ELSE Gcd(b, a % b)
\* the same fraction in lowest terms
Lowest(x) ==
    LET g == Gcd(IF x.num < 0 THEN -x.num ELSE x.num, x.den)
    IN  Frac(x.num \div g, x.den \div g)
FracAdd(x, y) == Lowest(Frac(x.num * y.den + y.num * x.den, x.den * y.den))
FracMul(x, y) == Lowest(Frac(x.num * y.num, x.den * y.den))
\* x / y for y > 0
FracDiv(x, y) == Lowest(Frac(x.num * y.den, x.den * y.num))
FracLe(x, y) == x.num * y.den <= y.num * x.den
FracMin(x, y) == IF FracLe(x, y) THEN x ELSE y
FracMax(x, y) == IF FracLe(x, y) THEN y ELSE x
Zero == Frac(0, 1)
One == Frac(1, 1)

\* accuracy.overall: 0.0, 0.5 or 1.0
AccuracyValues == {Frac(0, 1), Frac(1, 2), Frac(1, 1)}
\* latency.p50_first_byte of a scored run, in ms
ScoredLatencies == {0, 100, 200}
\* the TestResults a scorer gets: accuracy.overall, the numbers of passed
\* and of all assertions, latency.p50_first_byte, barge_in.was_handled
ScoredResults ==
    {[overall |-> o, passed |-> ps, total |-> t, p50 |-> l, was_handled |-> b] :
        o \in AccuracyValues, t \in 0..MaxScored, ps \in 0..MaxScored,
        l \in ScoredLatencies, b \in BOOLEAN}

\* RobustnessScorer._compute_accuracy
ComputeAccuracy(results) ==
    IF results.overall.num > 0 THEN results.overall
    ELSE IF results.total > 0 THEN Frac(results.passed, results.total)
    ELSE One

\* noisy_accuracy / clean_accuracy if clean_accuracy > 0 else 0.0
NoiseDegradation(clean_accuracy, noisy_accuracy) ==
    IF clean_accuracy.num > 0 THEN FracDiv(noisy_accuracy, clean_accuracy) ELSE Zero

\* latency.p50_first_byte or 1
LatencyOrOne(p50) == IF p50 = 0 THEN 1 ELSE p50

\* RobustnessScorer.score(clean, noisy)["score"], noisy being None or a
\* TestResults
RobustnessScore(clean, noisy) ==
    IF noisy = None THEN One
    ELSE LET noise_degradation ==
                 NoiseDegradation(ComputeAccuracy(clean), ComputeAccuracy(noisy))
             clean_latency == LatencyOrOne(clean.p50)
             noisy_latency == LatencyOrOne(noisy.p50)
             latency_ratio == IF noisy_latency > 0
                              THEN Frac(clean_latency, noisy_latency) ELSE Zero
             barge_in_score == IF noisy.was_handled THEN One ELSE Zero
         IN  FracAdd(FracAdd(FracMul(noise_degradation, Frac(4, 10)),
                             FracMul(FracMin(One, latency_ratio), Frac(3, 10))),
                     FracMul(barge_in_score, Frac(3, 10)))

\* LatencyScorer.THRESHOLDS, in ms
P50FirstByteMs == 300
P99FirstByteMs == 1000
TurnTakingGapMs == 500

\* latency.p50_first_byte, p99_first_byte and turn_gap_avg of a scored run
LatencyInputs == {0, 300, 1000, 3000}

\* max(0.0, 1.0 - value / (threshold * 2))
ThresholdScore(value, threshold) ==
    FracMax(Zero, Lowest(Frac(threshold * 2 - value, threshold * 2)))

\* LatencyScorer.score(results)["score"]
LatencyScore(p50, p99, turn_gap) ==
    IF p50 # 0 \/ p99 # 0 \/ turn_gap # 0
    THEN FracMul(FracAdd(FracAdd(ThresholdScore(p50, P50FirstByteMs),
                                 ThresholdScore(p99, P99FirstByteMs)),
                         ThresholdScore(turn_gap, TurnTakingGapMs)),
                 Frac(1, 3))
    ELSE One

\* the TestResults the accuracy scorer gets: the fields of AccuracyMetrics
\* and the numbers of passed and of all assertions
AccuracyResults ==
    {[overall |-> o, intent_recognition |-> i, entity_extraction |-> e,
      visual_grounding |-> Zero, passed |-> ps, total |-> t] :
        o \in AccuracyValues, i \in AccuracyValues, e \in AccuracyValues,
        t \in 0..MaxScored, ps \in 0..MaxScored}

\* the results object after AccuracyScorer.score: acc is results.accuracy
\* itself, and the fall-back to the pass rate is assigned to its fields
AccuracyAfter(results) ==
    IF results.overall.num = 0 /\ results.total > 0
    THEN LET rate == Lowest(Frac(results.passed, results.total))
         IN  [results EXCEPT !.overall = rate, !.intent_recognition = rate,
                             !.entity_extraction = rate]
    ELSE results

\* AccuracyScorer.score(results)["score"]
AccuracyScore(results) ==
    LET acc == AccuracyAfter(results)
    IN  FracAdd(FracAdd(FracMul(acc.intent_recognition, Frac(4, 10)),
                        FracMul(acc.entity_extraction, Frac(3, 10))),
                FracAdd(FracMul(acc.visual_grounding, Frac(1, 10)),
                        FracMul(acc.overall, Frac(2, 10))))

\* the results handed to a scorer: assertions passed do not exceed the
\* assertions made
ScorerInit ==
    /\ ClockAtRest /\ ToolInit /\ OrchInit
    /\ AdapterNew("custom") /\ ExtraIdle
    /\ fn_args \in
          {[fn |-> "robustness", clean |-> c, noisy |-> n] :
              c \in {r \in ScoredResults : r.passed <= r.total /\ ~r.was_handled},
              n \in {r \in ScoredResults : r.passed <= r.total} \cup {None}}
          \cup {[fn |-> "latency", p50 |-> a, p99 |-> b, turn_gap |-> g] :
                  a \in LatencyInputs, b \in LatencyInputs, g \in LatencyInputs}
          \cup {[fn |-> "accuracy", results |-> r] :
                  r \in {x \in AccuracyResults : x.passed <= x.total}}
    /\ fn_result = None

\* RobustnessScorer().score(clean, noisy)
ScoreRobustness ==
    /\ fn_result = None
    /\ fn_args.fn = "robustness"
    /\ fn_result' = [score |-> RobustnessScore(fn_args.clean, fn_args.noisy)]
    /\ UNCHANGED <<progVars, adapterVars, extraVars, fn_args>>

\* LatencyScorer().score(results)
ScoreLatency ==
    /\ fn_result = None
    /\ fn_args.fn = "latency"
    /\ fn_result' = [score |-> LatencyScore(fn_args.p50, fn_args.p99, fn_args.turn_gap)]
    /\ UNCHANGED <<progVars, adapterVars, extraVars, fn_args>>

\* AccuracyScorer().score(results)
ScoreAccuracy ==
    /\ fn_result = None
    /\ fn_args.fn = "accuracy"
    /\ fn_result' = [score |-> AccuracyScore(fn_args.results)]
    /\ fn_args' = [fn_args EXCEPT !.results = AccuracyAfter(fn_args.results)]
    /\ UNCHANGED <<progVars, adapterVars, extraVars>>

ScorerNext == ScoreRobustness \/ ScoreLatency \/ ScoreAccuracy

SpecScorer == ScorerInit /\ [][ScorerNext]_vars

(* ------------------------------ adapters ------------------------------- *)

\* most calls of the adapter's API (connect, disconnect, push_audio)
MaxAdapterCalls == 3

AdapterKinds == {"openai", "custom"}

\* the types of the ResponseEvents the listener queues
QueuedTypes == {"audio", "text", "tool_call", "error"}

\* the listener task has ended
ListenerEnded == listener \in {"returned", "cancelled"}

\* the listener task after cancel(), until its next step
CancelRequested(l) == IF l = "created" THEN "created_cancel" ELSE "running_cancel"

\* what an adapter action leaves alone
AdapterFrame == UNCHANGED <<progVars, fn_args, fn_result, adapter_kind, extraVars>>

\* connect(): open the transport and create the listener task
Connect ==
    /\ nadapter < MaxAdapterCalls
    /\ ~ws_open /\ ~disconnecting
    /\ nadapter' = nadapter + 1
    /\ ws_open' = TRUE
    /\ listener' = "created"
    /\ disconnected' = FALSE
    /\ last_call' = [op |-> "connect", connected |-> ws_open, outcome |-> "returned"]
    /\ AdapterFrame
    /\ UNCHANGED <<adapter_state, response_queue, disconnecting, consumer,
                   delivered, nmsgs>>

\* the first step of the listener task: _listen begins to read the socket
ListenerStart ==
    /\ listener = "created"
    /\ listener' = "running"
    /\ AdapterFrame
    /\ UNCHANGED <<ws_open, adapter_state, response_queue, disconnecting,
                   disconnected, last_call, consumer, delivered, nadapter, nmsgs>>

\* _state after the listener has handled a server message that gives an
\* event of the given type
StateAfter(kind, type, state) ==
    IF type = "audio" THEN "speaking"
    ELSE IF type = "tool_call" THEN "tool_calling"
    ELSE IF type = "text" /\ kind = "custom" THEN "speaking"
    ELSE state

\* the listener reads a server message and queues its ResponseEvent
ServerMessage(type) ==
    /\ listener = "running"
    /\ nmsgs < MaxSutEvents
    /\ nmsgs' = nmsgs + 1
    /\ response_queue' = Append(response_queue, type)
    /\ adapter_state' = StateAfter(adapter_kind, type, adapter_state)
    /\ AdapterFrame
    /\ UNCHANGED <<ws_open, listener, disconnecting, disconnected, last_call,
                   consumer, delivered, nadapter>>

\* _ws after `await self._ws.close(); self._ws = None`
WsKept == TRUE
WsAfterClose == FALSE

\* the end of disconnect(): close the transport, _state = IDLE
DisconnectTail ==
    /\ ws_open' = IF ws_open THEN WsAfterClose ELSE ws_open
    /\ adapter_state' = "idle"
    /\ disconnecting' = FALSE
    /\ disconnected' = TRUE

\* disconnect() up to its await of the listener task: a task that is
\* running is cancelled and awaited; when there is no task, or the task has
\* ended (awaiting it returns, or raises the CancelledError that is caught),
\* the call goes on to its end at once
DisconnectCall ==
    /\ nadapter < MaxAdapterCalls
    /\ ~disconnecting
    /\ nadapter' = nadapter + 1
    /\ IF listener \in {"created", "running"}
       THEN /\ listener' = CancelRequested(listener)
            /\ disconnecting' = TRUE
            /\ UNCHANGED <<ws_open, adapter_state, disconnected, last_call>>
       ELSE /\ DisconnectTail
            /\ last_call' = [op |-> "disconnect", connected |-> ws_open, outcome |-> "returned"]
            /\ UNCHANGED listener
    /\ AdapterFrame
    /\ UNCHANGED <<response_queue, consumer, delivered, nmsgs>>

\* the listener task's next step after cancel(): a task that has not
\* started ends cancelled without running; a running one gets
\* CancelledError at its await, catches it and returns
ListenerExit ==
    /\ listener \in {"created_cancel", "running_cancel"}
    /\ listener' = IF listener = "created_cancel" THEN "cancelled" ELSE "returned"
    /\ AdapterFrame
    /\ UNCHANGED <<ws_open, adapter_state, response_queue, disconnecting,
                   disconnected, last_call, consumer, delivered, nadapter, nmsgs>>

\* `await self._listener_task` ends and disconnect() runs to its end
DisconnectEnd ==
    /\ disconnecting
    /\ ListenerEnded
    /\ DisconnectTail
    /\ last_call' = [op |-> "disconnect", connected |-> ws_open, outcome |-> "returned"]
    /\ AdapterFrame
    /\ UNCHANGED <<listener, response_queue, consumer, delivered, nadapter, nmsgs>>

\* how push_audio(chunk) ends: OpenAIRealtimeAdapter raises
\* RuntimeError("Not connected") when _ws is None; CustomWebSocketAdapter
\* goes to _send, which returns without sending when _ws is None
PushOutcome(kind, connected) ==
    IF connected THEN "sent"
    ELSE IF kind = "openai" THEN "NotConnected"
    ELSE "discarded"

\* push_audio(chunk)
PushAudioCall ==
    /\ nadapter < MaxAdapterCalls
    /\ nadapter' = nadapter + 1
    /\ last_call' = [op |-> "push_audio", connected |-> ws_open,
                     outcome |-> PushOutcome(adapter_kind, ws_open)]
    /\ AdapterFrame
    /\ UNCHANGED <<ws_open, listener, adapter_state, response_queue, disconnecting,
                   disconnected, consumer, delivered, nmsgs>>

\* a consumer begins to iterate get_response_stream()
StreamStart ==
    /\ consumer = "none"
    /\ consumer' = "iterating"
    /\ AdapterFrame
    /\ UNCHANGED <<ws_open, listener, adapter_state, response_queue, disconnecting,
                   disconnected, last_call, delivered, nadapter, nmsgs>>

\* `if event.type == ResponseEventType.ERROR: break`, which only
\* OpenAIRealtimeAdapter.get_response_stream has
BreaksAfter(kind, type) == kind = "openai" /\ type = "error"

\* the generator yields the next queued event to the consumer; delivered
\* notes whether a disconnect() had completed and whether an ERROR event
\* had been delivered before
StreamNext ==
    /\ consumer = "iterating"
    /\ response_queue # <<>>
    /\ response_queue' = Tail(response_queue)
    /\ delivered' = Append(delivered,
                           [type |-> Head(response_queue),
                            after_disconnect |-> disconnected,
                            after_error |-> \E i \in 1..Len(delivered) :
                                               delivered[i].type = "error"])
    /\ consumer' = IF BreaksAfter(adapter_kind, Head(response_queue))
                   THEN "ended" ELSE "iterating"
    /\ AdapterFrame
    /\ UNCHANGED <<ws_open, listener, adapter_state, disconnecting, disconnected,
                   last_call, nadapter, nmsgs>>

\* asyncio.wait_for(self._response_queue.get(), timeout=30) times out: no
\* event for 30 s ends the stream
StreamTimeout ==
    /\ consumer = "iterating"
    /\ response_queue = <<>>
    /\ consumer' = "ended"
    /\ AdapterFrame
    /\ UNCHANGED <<ws_open, listener, adapter_state, response_queue, disconnecting,
                   disconnected, last_call, delivered, nadapter, nmsgs>>

AdapterNext ==
    \/ Connect
    \/ ListenerStart
    \/ \E type \in QueuedTypes : ServerMessage(type)
    \/ DisconnectCall
    \/ ListenerExit
    \/ DisconnectEnd
    \/ PushAudioCall
    \/ StreamStart
    \/ StreamNext
    \/ StreamTimeout

\* an adapter of either class after __init__
AdapterInit ==
    /\ ClockAtRest /\ ToolInit /\ OrchInit
    /\ fn_args = None /\ fn_result = None /\ ExtraIdle
    /\ \E kind \in AdapterKinds : AdapterNew(kind)

SpecAdapter == AdapterInit /\ [][AdapterNext]_vars

(* ------------------------ claims on the clock -------------------------- *)

\* C3 (as claimed): the clock never decreases on any step other than
\* reset(), for any interleaving of advance_to / advance_by callers and
\* set_realtime; and an advance_to(x) that nothing interleaves with leaves
\* now() = max(old, x), old being target - delta for a caller that slept.
C3_ClockMonotone ==
    [][ /\ (~Reset => current' >= current)
        /\ \A a \in Advancers :
              /\ \A x \in Times :
                    (AdvanceTo(a, x) /\ ~(realtime /\ x > current))
                        => current' = Max(current, x)
              /\ (AdvanceWake(a) /\ current = adv[a].target - adv[a].delta)
                        => current' = Max(current, adv[a].target)
      ]_vars

\* an advance_to that moved the clock returns on this step
AdvanceReturns ==
    \E a \in Advancers :
        \/ AdvanceWake(a)
        \/ ~realtime /\ \E x \in Times : x > current /\ AdvanceTo(a, x)

InWaiters(ws, e) == \E i \in 1..Len(ws) : ws[i].ev = e

\* C4: when an advance_to that moved the clock returns, every continuation
\* that was registered with a target <= the new time has been signalled and
\* is off the waiter list, every other one is still registered, at its place
\* in the list, and unsignalled; a registered continuation is never set.
C4_AdvanceReleasesEligibleWaiters ==
    /\ [](\A i \in 1..Len(waiters) : ~evset[waiters[i].ev])
    /\ [][AdvanceReturns =>
            /\ \A i \in 1..Len(waiters) :
                  IF waiters[i].target <= current'
                  THEN evset'[waiters[i].ev] /\ ~InWaiters(waiters', waiters[i].ev)
                  ELSE ~evset'[waiters[i].ev] /\ InWaiters(waiters', waiters[i].ev)
            /\ \A j \in 1..Len(waiters') : \E i \in 1..Len(waiters) :
                  waiters'[j] = waiters[i]
         ]_vars

\* C4 witness: after an advance_to, w1's continuation (target reached) is
\* signalled and unregistered, w2's (target not reached) is still waiting.
C4_Witness ==
    /\ cw["w1"].pc = "suspended" /\ evset["w1"] /\ ~InWaiters(waiters, "w1")
    /\ cw["w1"].target <= current
    /\ cw["w2"].pc = "suspended" /\ ~evset["w2"] /\ InWaiters(waiters, "w2")
    /\ cw["w2"].target > current

\* wait_until returns at once exactly when now() >= target, and a suspended
\* caller is signalled only by a step that sets the clock to >= its target
WaitUntilProtocol(w) ==
    /\ \A x \in Times :
          WaitUntil(w, x) => ((current >= x) <=> (cw'[w].pc = "idle"))
    /\ (cw[w].pc = "suspended" /\ cw'[w].pc = "suspended" /\ ~evset[w] /\ evset'[w])
          => (current' >= cw[w].target /\ current' # current)
    /\ (cw[w].pc = "suspended" /\ cw'[w].pc = "idle") => evset[w]

\* C5 (as claimed): wait_until(target) returns without suspending when
\* now() >= target; otherwise the caller is resumed only after an advance_to
\* set the clock to >= target, and never while now() < target.
C5_NeverResumedEarly ==
    [][\A w \in ClockWaiters :
          /\ WaitUntilProtocol(w)
          /\ WaitResume(w) => current >= cw[w].target
      ]_vars

\* C5 (amended): wait_until(target) returns without suspending when
\* now() >= target; otherwise the caller is suspended and is resumed only
\* after an advance_to has set the clock to a time >= target.
C5_ResumedOnlyAfterTargetReached ==
    [][\A w \in ClockWaiters : WaitUntilProtocol(w)]_vars

\* C5 witness: w1 was signalled by an advance_to that reached its target and
\* is about to resume, while the clock now reads less than that target.
C5_Witness ==
    /\ cw["w1"].pc = "suspended" /\ evset["w1"]
    /\ current < cw["w1"].target

(* ----------------------- claims on the registry ------------------------ *)

IsPending(w) == \E i \in 1..Len(pending) : pending[i] = w

\* C6: the step of handle_call that ends at its first suspension point (the
\* latency sleep) has appended the call to call_log and has set the event of
\* exactly the pending expectations for the called tool; the step after the
\* sleep touches neither the log nor an expectation.
C6_RecordAndSignalBeforeSleep ==
    [][\A h \in Handlers :
          /\ \A c \in CallInputs :
                HandleCall(h, c[1], c[2]) =>
                    /\ call_log' = Append(call_log,
                          [tool |-> c[1], args |-> c[2], timestamp |-> current])
                    /\ \A w \in AllWaitTasks :
                          received'[w] <=>
                              (received[w] \/ (IsPending(w) /\ wst[w].tool = c[1]))
                    /\ (c[1] \in RegisteredTools <=> hst'[h].pc = "sleeping")
          /\ HandleCallWake(h) => (call_log' = call_log /\ received' = received)
      ]_vars

\* C6 witness: the only handle_call made so far is still in its latency
\* sleep and a wait_for_call has already returned a passed result, while an
\* expectation for the other tool is still pending and unsignalled.
C6_Witness ==
    /\ ncalls = 1 /\ hst["h1"].pc = "sleeping"
    /\ wst["t1"].pc = "done" /\ wst["t1"].res.passed
    /\ wst["t2"].pc = "waiting" /\ wst["t2"].tool = "nonexistent" /\ ~received["t2"]

\* every (key, value) pair of expected is in args with an equal value
ArgsContain(expected, args) ==
    \A key \in DOMAIN expected : key \in DOMAIN args /\ args[key] = expected[key]

\* C7 (as claimed): a wait_for_call with expected_args that resolves to a
\* call passes exactly if every (key, value) pair of expected_args is in the
\* call's args with an equal value, and otherwise returns passed = false
\* with expected and actual.
C7_PassesOnlyIfArgsEqual ==
    [][\A w \in AllWaitTasks :
          (/\ wst[w].pc = "waiting" /\ wst'[w].pc = "done"
           /\ wst[w].expected.given
           /\ MatchingCalls(call_log, wst[w].tool) # <<>>)
          => LET calls == MatchingCalls(call_log, wst[w].tool)
                 args == calls[Len(calls)].args
                 ok == ArgsContain(wst[w].expected.args, args)
             IN /\ wst'[w].res.passed <=> ok
                /\ ~ok => /\ wst'[w].res.expected = wst[w].expected.args
                          /\ wst'[w].res.actual = args
      ]_vars

\* every change of call_log is a reset or an append at its end
LogGrowsAtEnd ==
    \/ call_log' = call_log
    \/ call_log' = <<>>
    \/ /\ Len(call_log') = Len(call_log) + 1
       /\ SubSeq(call_log', 1, Len(call_log)) = call_log
       /\ \E h \in Handlers, c \in CallInputs :
             /\ HandleCall(h, c[1], c[2])
             /\ call_log'[Len(call_log')].tool = c[1]
             /\ call_log'[Len(call_log')].args = c[2]

\* C9 (as claimed): call_log keeps the calls in the order they were made,
\* and a wait_for_call(name) that overlaps no other wait for that name and
\* is the k-th for it resolves to the k-th call_log entry with that name.
C9_KthWaitResolvesToKthEntry ==
    /\ [](\A w \in AllWaitTasks : wst[w].pc = "done" => wst[w].kth # "no")
    /\ [][LogGrowsAtEnd]_vars

\* C9 (amended): call_log keeps the calls in the order they were made, and
\* a wait_for_call(name) that was signalled resolves to the most recent
\* call_log entry with that name at the moment the waiting task runs again.
C9_WaitResolvesToMostRecentEntry ==
    [][/\ LogGrowsAtEnd
       /\ \A w \in AllWaitTasks :
             (/\ wst[w].pc = "waiting" /\ wst'[w].pc = "done"
              /\ MatchingCalls(call_log, wst[w].tool) # <<>>)
             => LET calls == MatchingCalls(call_log, wst[w].tool)
                IN  /\ wst'[w].res.description \in {"Called", "MissingArg"}
                    /\ wst'[w].res.actual = calls[Len(calls)].args
      ]_vars

\* C9 witness: the first wait_for_call("get_weather"), overlapping no other,
\* returned the args of the second of two logged get_weather calls, whose
\* args differ from the first one's.
C9_Witness ==
    /\ wst["t1"].pc = "done" /\ wst["t1"].kth = "no"
    /\ nwaits["get_weather"] = 1
    /\ Len(call_log) = 2
    /\ call_log[1].tool = "get_weather" /\ call_log[2].tool = "get_weather"
    /\ call_log[1].args # call_log[2].args
    /\ wst["t1"].res.actual = call_log[2].args

\* wait_for_call invocation w is between its registration and its return
WaitInProgress(w) == wst[w].pc \in {"waiting", "timing_out"}

\* C11: pending_expectations holds exactly the expectations of the
\* wait_for_call invocations in progress, each once, so it is empty when
\* none is in progress; the step that ends a wait_for_call, by signal, by
\* timeout or by cancellation, removes that invocation's expectation and
\* leaves the others as they were, in their order.
C11_OwnExpectationRemoved ==
    /\ [](/\ \A w \in AllWaitTasks : IsPending(w) <=> WaitInProgress(w)
          /\ \A i, j \in 1..Len(pending) : pending[i] = pending[j] => i = j)
    /\ [][\A w \in AllWaitTasks :
            (WaitInProgress(w) /\ wst'[w].pc \in {"done", "cancelled"})
            => /\ \A i \in 1..Len(pending') : pending'[i] # w
               /\ pending' = SelectSeq(pending, LAMBDA e : e # w)
               /\ Len(pending') = Len(pending) - 1
         ]_vars

\* C11 witness: two wait_for_call invocations were in progress; the one
\* registered last has timed out, the other was cancelled after it, and
\* pending_expectations is empty again.
C11_Witness ==
    /\ wst["t1"].pc = "cancelled"
    /\ wst["t2"].pc = "done" /\ wst["t2"].res.description = "Timeout"
    /\ nwaits["get_weather"] = 2
    /\ pending = <<>>

\* C12: handle_call for the tool name "nonexistent", which has no mock,
\* returns in the step that starts it, without a latency sleep, the
\* ToolResult of an unknown tool; that step still appends the call to
\* call_log and still sets the event of every pending expectation for that
\* name.
C12_UnknownToolReturnsAtOnce ==
    [][\A h \in Handlers, args \in ArgDicts :
          HandleCall(h, "nonexistent", args)
          => /\ hst'[h] = [pc |-> "idle", res |-> "unknown_tool"]
             /\ call_log' = Append(call_log,
                   [tool |-> "nonexistent", args |-> args, timestamp |-> current])
             /\ \A w \in AllWaitTasks :
                   (IsPending(w) /\ wst[w].tool = "nonexistent") => received'[w]
      ]_vars

\* C12 witness: the only call so far was for "nonexistent"; it has returned
\* the unknown-tool result, is in call_log, and has signalled the pending
\* expectation for that name, whose waiter has not run yet.
C12_Witness ==
    /\ ncalls = 1 /\ Len(call_log) = 1 /\ call_log[1].tool = "nonexistent"
    /\ hst["h1"] = [pc |-> "idle", res |-> "unknown_tool"]
    /\ wst["t1"].pc = "waiting" /\ wst["t1"].tool = "nonexistent"
    /\ IsPending("t1") /\ received["t1"]

(* --------------------- claims on the orchestrator ---------------------- *)

\* a step of the dispatch loop that takes the next event from the queue
Dispatches == run'.event # run.event /\ run'.event # NoEvent

\* C1 (as claimed): the events of a run are dispatched in (timestamp,
\* sequence number) order, events enqueued by a conditional included: of two
\* events dispatched one after the other, the first has the smaller
\* timestamp, or the same timestamp and the smaller sequence number.
C1_DispatchedInTimestampSeqOrder ==
    [][(Dispatches /\ run.event # NoEvent)
       => \/ run.event.timestamp < run'.event.timestamp
          \/ /\ run.event.timestamp = run'.event.timestamp
             /\ run.event.seq < run'.event.seq
      ]_vars

\* C2 (as claimed): when the dispatch handler of an event is entered, the
\* clock reads the event's timestamp.
C2_ClockEqualsTimestampAtEntry ==
    run.event # NoEvent => run.entryNow = run.event.timestamp

\* C2 (amended): when the dispatch handler of an event is entered, the clock
\* reads the later of the event's timestamp and the time it read before the
\* event was taken from the queue, so it is never before the timestamp; the
\* clock keeps that reading while the handler is in progress and after it,
\* unless the handler is that of a wait.
C2_ClockAtLeastTimestampAtEntry ==
    run.event # NoEvent
    => /\ run.entryNow >= run.event.timestamp
       /\ run.entryNow = Max(run.nowBefore, run.event.timestamp)
       /\ run.event.action # "wait" => current = run.entryNow
       /\ run.event.action = "wait"
             => current = run.entryNow + run.event.duration_ms \div 1000

\* C2 witness: a scenario of two entries and no branch, whose second event
\* has timestamp 0 and is an expect_tool_call in progress with the clock at 1
C2_Witness ==
    /\ seq = 2 /\ run.event.seq = 2
    /\ run.pc = "in_wait"
    /\ run.event.timestamp = 0 /\ run.entryNow = 1 /\ current = 1

\* C8 (as claimed): an expect_tool_call with timeout_ms = 0 adds a passed
\* assertion if a call of the tool was in call_log when the event was
\* dispatched, and a failed one if not.
C8_ZeroTimeoutPassesIfAlreadyCalled ==
    [][(run.pc = "in_wait" /\ run'.pc = "loop" /\ run.event.timeout_ms = 0)
       => /\ Len(assertions') = Len(assertions) + 1
          /\ assertions'[Len(assertions')].passed <=> run.hadCall
      ]_vars

\* C10: a wait_for_call whose timeout elapses returns a failed
\* AssertionResult that describes the timeout; the orchestrator appends it
\* to results.assertions and goes on with the events left in the queue, and
\* returns only when the queue is empty.
C10_TimeoutRecordedAndRunContinues ==
    /\ [][(wst["disp"].pc = "timing_out" /\ wst'["disp"].pc = "done")
          => /\ wst'["disp"].res.passed = FALSE
             /\ wst'["disp"].res.description = "Timeout"
             /\ assertions' = Append(assertions, wst'["disp"].res)
             /\ run'.pc = "loop"
             /\ timeline' = timeline
         ]_vars
    /\ [](run.pc = "returned" => timeline = {})

\* C10 witness: no tool was called and the expect_tool_call with timeout_ms
\* = 1000 has timed out; its failed result is in the results, the run task
\* is back in the dispatch loop and the next event is still in the queue.
C10_Witness ==
    /\ call_log = <<>>
    /\ run.event.action = "expect_tool_call" /\ run.event.timeout_ms = 1000
    /\ run.pc = "loop"
    /\ wst["disp"].pc = "done" /\ wst["disp"].res.description = "Timeout"
    /\ assertions = <<wst["disp"].res>> /\ ~assertions[1].passed
    /\ timeline # {}

\* the number of events dispatched in this run that satisfy P
NumDispatched(P(_)) == Cardinality({i \in 1..Len(dispatched) : P(dispatched[i])})

\* C13 (as claimed): when run has returned, results.assertions has one
\* entry for each dispatched assert_system event, one for each dispatched
\* expect_tool_call event and one for each event whose dispatch raised.
C13_AssertionCount ==
    run.pc = "returned"
    => Len(assertions) =
          NumDispatched(LAMBDA d : d.event.action = "assert_system")
          + NumDispatched(LAMBDA d : d.event.action = "expect_tool_call")
          + NumDispatched(LAMBDA d : d.raised)

\* C14: the step that dispatches an event whose dispatch raises appends one
\* failed AssertionResult with the event's timestamp and leaves the run task
\* in the dispatch loop with every other queued event still queued; an event
\* leaves the queue only by being dispatched, and run returns only when the
\* queue is empty.
C14_ExceptionRecordedAndRunContinues ==
    /\ [][(Dispatches /\ dispatched'[Len(dispatched')].raised)
          => /\ Len(assertions') = Len(assertions) + 1
             /\ assertions'[Len(assertions')].passed = FALSE
             /\ assertions'[Len(assertions')].timestamp = run'.event.timestamp
             /\ SubSeq(assertions', 1, Len(assertions)) = assertions
             /\ run'.pc = "loop"
             /\ timeline \ {run'.event} \subseteq timeline'
         ]_vars
    /\ [][\A e \in timeline \ timeline' :
             /\ dispatched' = Append(dispatched, dispatched'[Len(dispatched')])
             /\ dispatched'[Len(dispatched')].event = e
         ]_vars
    /\ [](run.pc = "returned" => timeline = {})

\* C14 witness: the first event dispatched was a conditional whose dispatch
\* raised; its failed result is the first of the results, two more events
\* were dispatched after it and added theirs, and run has returned.
C14_Witness ==
    /\ run.pc = "returned"
    /\ Len(dispatched) = 3 /\ dispatched[1].raised
    /\ Len(assertions) = 3
    /\ ~assertions[1].passed
    /\ assertions[1].timestamp = dispatched[1].event.timestamp
    /\ assertions[2].passed /\ assertions[3].passed

\* C20 (as claimed): the step that dispatches a conditional event puts in
\* the queue only events whose timestamp is at least the conditional's own.
C20_BranchEventsNotBeforeConditional ==
    [][(Dispatches /\ run'.event.action = "conditional")
       => \A e \in timeline' \ timeline :
             e.timestamp >= run'.event.timestamp
      ]_vars

(* ----------------- claims on the response collector -------------------- *)

\* run has ended: it has returned, or an exception has left it
RunEnded == run.pc \in {"returned", "cancelled"}

\* C15 (as claimed): whenever run has ended, by returning or by a
\* cancellation leaving the dispatch loop, the collector task (if one was
\* created) has been cancelled and has exited, and no step taken after the
\* end of run changes the results.
C15_CollectorExitedWhenRunEnds ==
    /\ [](RunEnded => (collector.pc = "none" \/ (collector.cancel /\ collector.pc = "exited")))
    /\ [][RunEnded => UNCHANGED <<assertions, responses, first_byte_latencies, tool_calls>>]_vars

\* C16: when run(scenario, system) has returned without having dispatched
\* an event (the timeline was empty), the results hold no assertions,
\* responses, tool calls or latencies, and no method of the adapter has been
\* invoked, get_response_stream included.
C16_EmptyTimelineTouchesNothing ==
    (run.pc = "returned" /\ system /\ dispatched = <<>>)
    => /\ assertions = <<>>
       /\ responses = <<>>
       /\ tool_calls = <<>>
       /\ first_byte_latencies = <<>>
       /\ adapter_calls = <<>>

\* C16 witness: a run with a system and an empty timeline has returned; its
\* collector task was created and has exited, and the adapter had an event
\* on offer that nobody asked for.
C16_Witness ==
    /\ run.pc = "returned" /\ system /\ dispatched = <<>>
    /\ collector.pc = "exited"
    /\ stream # <<>>
    /\ adapter_calls = <<>>

\* a step in which the collector takes an event from the stream
Consumes == Len(stream') < Len(stream)

\* C19: the stream is first-in first-out, and the step that takes its
\* first event records it by its type alone: a text event adds one entry to
\* responses, an audio event one entry to responses and its timestamp * 1000
\* to first_byte_latencies, a tool_call event one entry to tool_calls, any
\* other event nothing; within a run the results change by such steps only,
\* so responses and tool_calls are in arrival order.
C19_RecordedByKindInArrivalOrder ==
    /\ [][Consumes =>
            LET e == Head(stream)
                rec == [kind |-> e.type, timestamp |-> e.timestamp, id |-> e.id]
                call == [timestamp |-> e.timestamp, success |-> TRUE, id |-> e.id]
            IN  /\ stream' = Tail(stream)
                /\ responses' = IF e.type \in {"text", "audio"}
                                THEN Append(responses, rec) ELSE responses
                /\ first_byte_latencies' =
                      IF e.type = "audio"
                      THEN Append(first_byte_latencies, e.timestamp * 1000)
                      ELSE first_byte_latencies
                /\ tool_calls' = IF e.type = "tool_call"
                                 THEN Append(tool_calls, call) ELSE tool_calls
         ]_vars
    /\ [][(~Consumes /\ run.pc # "idle")
            => /\ UNCHANGED <<responses, first_byte_latencies, tool_calls>>
               /\ stream' = stream
                  \/ /\ Len(stream') = Len(stream) + 1
                     /\ SubSeq(stream', 1, Len(stream)) = stream
                     /\ stream'[Len(stream')].id = nemitted'
                     /\ nemitted' = nemitted + 1
         ]_vars
    /\ [](\A i, j \in 1..Len(responses) : i < j => responses[i].id < responses[j].id)
    /\ [](\A i, j \in 1..Len(tool_calls) : i < j => tool_calls[i].id < tool_calls[j].id)

\* C19 witness: the SUT emitted two events and the collector took both; the
\* first, of a kind that is not recorded, left no trace, the second, an
\* audio event with timestamp 1, is the only response and gave the latency
\* 1000.
C19_Witness ==
    /\ nemitted = 2 /\ stream = <<>>
    /\ responses = <<[kind |-> "audio", timestamp |-> 1, id |-> 2]>>
    /\ first_byte_latencies = <<1000>>
    /\ tool_calls = <<>>

(* ----------------------- claims on user_speak -------------------------- *)

\* the push_audio and commit_audio calls made for the utterance of the
\* event with sequence number u, in order
UttCalls(u) ==
    SelectSeq(adapter_calls,
              LAMBDA c : c.op \in {"push_audio", "commit_audio"} /\ c.utt = u)

\* the i-th dispatched event is a user_speak whose dispatch has ended
SpokenAndDone(i) ==
    /\ dispatched[i].event.action = "user_speak"
    /\ ~(i = Len(dispatched) /\ run.pc = "speaking")

\* the calls made for the i-th dispatched event are push_audio calls with
\* increasing chunk numbers, each mixed if there is an environment layer and
\* applied if there is a network layer, and then one commit_audio
PushedThenCommitted(i) ==
    LET calls == UttCalls(dispatched[i].event.seq)
    IN  /\ Len(calls) >= 1
        /\ calls[Len(calls)] = [op |-> "commit_audio", utt |-> dispatched[i].event.seq]
        /\ \A k \in 1..(Len(calls) - 1) :
              /\ calls[k].op = "push_audio"
              /\ calls[k].mixed = ("environment" \in layers)
              /\ calls[k].applied = ("network" \in layers)
              /\ \A l \in 1..(k - 1) : calls[l].chunk < calls[k].chunk

\* the chunks pushed for the utterance in progress or last dispatched are
\* the chunks generated so far for which apply did not return DROP
PushedAreNotDropped ==
    {c.chunk : c \in {UttCalls(speak.utt)[k] : k \in 1..Len(UttCalls(speak.utt))}
                        \ {[op |-> "commit_audio", utt |-> speak.utt]}}
    = {n \in 1..Len(speak.outcomes) : speak.outcomes[n] # "DROP"}

C18_TotalLossPushesNothing ==
    /\ [][("network" \in layers /\ loss_rate = 100 /\ speak'.outcomes # speak.outcomes
            /\ speak'.outcomes # <<>>)
           => speak'.outcomes[Len(speak'.outcomes)] = "DROP"]_vars
    /\ []( ("network" \in layers /\ loss_rate = 100)
           => /\ \A i \in 1..Len(adapter_calls) : adapter_calls[i].op # "push_audio"
              /\ nemitted = 0
              /\ responses = <<>>
              /\ first_byte_latencies = <<>> )

\* C18 witness: with a network layer of loss_rate 1.0, a run has spoken an
\* utterance of two chunks, both dropped, committed it and returned.
C18_Witness ==
    /\ system /\ "network" \in layers /\ loss_rate = 100
    /\ run.pc = "returned"
    /\ speak.outcomes = <<"DROP", "DROP">>
    /\ UttCalls(speak.utt) = <<CommitAudio(speak.utt)>>
    /\ responses = <<>> /\ first_byte_latencies = <<>>

(* ------------------------ claims on conditional ------------------------ *)

\* a step that dispatches a conditional event
DispatchesConditional == Dispatches /\ run'.event.action = "conditional"

\* the queue after the step holds the events queued before it, the
\* dispatched event excepted, and one new event for each of the entries,
\* with the entry's action and the next sequence numbers
EnqueuesInAddition(entries) ==
    /\ timeline \ {run'.event} \subseteq timeline'
    /\ run'.event \notin timeline'
    /\ Cardinality(timeline') = Cardinality(timeline) - 1 + Len(entries)
    /\ \A i \in 1..Len(entries) :
          \E e \in timeline' \ timeline :
             e.seq = seq + i /\ e.action = entries[i].action
    /\ seq' = seq + Len(entries)

\* when run has returned, every event that was enqueued has been dispatched
\* exactly once
AllDispatchedOnce ==
    run.pc = "returned"
    => /\ {dispatched[i].event.seq : i \in 1..Len(dispatched)} = 1..seq
       /\ Len(dispatched) = seq

\* a root assert_system and a conditional whose default branch holds one
\* assert_system have been dispatched, and the branch's entry after them
RootAssertAndConditional ==
    /\ Len(dispatched) = 3
    /\ {dispatched[1].event.action, dispatched[2].event.action}
         = {"assert_system", "conditional"}
    /\ \E i \in 1..2 : /\ dispatched[i].event.action = "conditional"
                        /\ dispatched[i].event.branches = [default |-> BranchEntries]
    /\ dispatched[3].event.action = "assert_system" /\ dispatched[3].event.seq = 3

\* C21 (as claimed): the step that dispatches a conditional whose branch
\* "default" exists enqueues each entry of the branch in addition to the
\* events already queued, and nothing when the key is absent; when run has
\* returned every enqueued event has been dispatched exactly once.
C21_BranchEnqueuedInAddition ==
    /\ [][DispatchesConditional
           => IF "default" \in DOMAIN run'.event.branches
              THEN EnqueuesInAddition(run'.event.branches["default"])
              ELSE EnqueuesInAddition(<<>>)
         ]_vars
    /\ []AllDispatchedOnce

\* C21 (amended): the same for a conditional whose dispatch does not raise
\* (every entry of the branch has an "at" that parses); a root
\* assert_system plus a conditional whose default branch holds one
\* assert_system yields exactly 2 assertions.
C21_ParsableBranchEnqueuedInAddition ==
    /\ [][(DispatchesConditional /\ ~dispatched'[Len(dispatched')].raised)
           => IF "default" \in DOMAIN run'.event.branches
              THEN EnqueuesInAddition(run'.event.branches["default"])
              ELSE EnqueuesInAddition(<<>>)
         ]_vars
    /\ []AllDispatchedOnce
    /\ []((run.pc = "returned" /\ RootAssertAndConditional) => Len(assertions) = 2)

\* C21 witness: a run of a root assert_system and a conditional with a
\* default branch of one assert_system has returned: three events were
\* dispatched, the branch's entry last, and there are 2 assertions.
C21_Witness ==
    /\ run.pc = "returned"
    /\ RootAssertAndConditional
    /\ Len(assertions) = 2

(* ------------------- claims on recorded timestamps --------------------- *)

\* C30 (as claimed): the timestamp the collector records for a text or an
\* audio event is clock.now() at the step that records it, and the latency
\* it appends for an audio event is clock.now() * 1000.
C30_RecordedTimestampIsClockNow ==
    [][(Consumes /\ Head(stream).type \in {"text", "audio"})
       => /\ responses'[Len(responses')].timestamp = current
          /\ Head(stream).type = "audio"
             => first_byte_latencies'[Len(first_byte_latencies')] = current * 1000
      ]_vars

(* ------------------- claims on assert_call_order ----------------------- *)

\* names occurs in actual as a subsequence: its elements can be matched to
\* positions of actual that increase strictly
IsSubsequence(names, actual) ==
    \E f \in [1..Len(names) -> 1..Len(actual)] :
       /\ \A i \in 1..Len(names) : actual[f[i]] = names[i]
       /\ \A i, j \in 1..Len(names) : i < j => f[i] < f[j]

\* C26: assert_call_order(n1..nk) returns true exactly when n1..nk is a
\* subsequence of the recorded tool names, each recorded call matched at
\* most once; so it is false for ("a") on an empty log, true for ("a") on
\* ["b","a"] and false for ("c","a") on ["a","b","c"].
C26_CallOrderIsSubsequence ==
    /\ fn_result # None
       => fn_result.value = IsSubsequence(fn_args.tool_names, fn_args.actual)
    /\ ~AssertCallOrder(<<"a">>, <<>>)
    /\ AssertCallOrder(<<"a">>, <<"b", "a">>)
    /\ ~AssertCallOrder(<<"c", "a">>, <<"a", "b", "c">>)

\* C26 witness: assert_call_order("c", "a") on calls a, b, c has returned
\* false.
C26_Witness ==
    /\ fn_args = [fn |-> "assert_call_order", tool_names |-> <<"c", "a">>,
                  actual |-> <<"a", "b", "c">>]
    /\ fn_result = [value |-> FALSE]

(* -------------------------- claims on scorers -------------------------- *)

\* C28 (as claimed): the score a scorer returns lies in [0, 1] for results
\* whose accuracy and pass rates are in [0, 1] and whose latencies are not
\* negative, the robustness scorer included when the noisy run is more
\* accurate than the clean run.
C28_ScoreInUnitInterval ==
    fn_result # None => (FracLe(Zero, fn_result.score) /\ FracLe(fn_result.score, One))

\* C33: a scorer only reads the TestResults it is given: when score()
\* returns, every field of its input is as it was
C33_ScorersOnlyRead == [][fn_result' # fn_result => fn_args' = fn_args]_vars

(* ------------- the reference adapter's handling of server events ------- *)

\* the "type" values _handle_server_event has a case for, and one it has
\* none for
ServerEventTypes ==
    {"session.created", "session.updated", "error",
     "input_audio_buffer.committed", "input_audio_buffer.speech_started",
     "input_audio_buffer.speech_stopped", "response.created", "response.done",
     "response.audio.delta", "response.audio.done",
     "response.audio_transcript.delta", "response.text.delta",
     "response.function_call_arguments.done", "conversation.item.created",
     "rate_limits.updated"}

\* self._state after _handle_server_event has handled a message
StateAfterEvent(type, state) ==
    CASE type = "input_audio_buffer.speech_started" -> "listening"
      [] type = "response.created" -> "thinking"
      [] type = "response.done" -> "idle"
      [] type = "response.audio.delta" -> "speaking"
      [] type = "response.audio.done" -> "idle"
      [] type = "response.function_call_arguments.done" -> "tool_calling"
      [] OTHER -> state

\* the ResponseEvents the handler puts in the queue for a message; a delta
\* of text is queued when it is not empty, a response.done has no output
\* items
QueuedFor(type, nonempty) ==
    CASE type = "error" -> <<"error">>
      [] type = "response.audio.delta" -> <<"audio">>
      [] type \in {"response.audio_transcript.delta", "response.text.delta"}
            -> IF nonempty THEN <<"text">> ELSE <<>>
      [] type = "response.function_call_arguments.done" -> <<"tool_call">>
      [] OTHER -> <<>>

\* the listener reads one server message and _handle_server_event handles it
HandleServerEvent(type) ==
    /\ listener = "running"
    /\ nmsgs < MaxSutEvents
    /\ nmsgs' = nmsgs + 1
    /\ \E nonempty \in BOOLEAN :
          response_queue' = response_queue \o QueuedFor(type, nonempty)
    /\ adapter_state' = StateAfterEvent(type, adapter_state)
    /\ last_call' = [op |-> type, connected |-> ws_open, outcome |-> "handled"]
    /\ AdapterFrame
    /\ UNCHANGED <<ws_open, listener, disconnecting, disconnected, consumer,
                   delivered, nadapter>>

\* create_response(): returns at once when not connected, else sets
\* THINKING and sends response.create
CreateResponseCall ==
    /\ nadapter < MaxAdapterCalls
    /\ nadapter' = nadapter + 1
    /\ adapter_state' = IF ws_open THEN "thinking" ELSE adapter_state
    /\ last_call' = [op |-> "create_response", connected |-> ws_open,
                     outcome |-> "returned"]
    /\ AdapterFrame
    /\ UNCHANGED <<ws_open, listener, response_queue, disconnecting, disconnected,
                   consumer, delivered, nmsgs>>

ReferenceNext ==
    \/ Connect
    \/ ListenerStart
    \/ \E type \in ServerEventTypes : HandleServerEvent(type)
    \/ CreateResponseCall
    \/ DisconnectCall
    \/ ListenerExit
    \/ DisconnectEnd

\* an OpenAIRealtimeAdapter after __init__
ReferenceInit ==
    /\ ClockAtRest /\ ToolInit /\ OrchInit
    /\ fn_args = None /\ fn_result = None /\ ExtraIdle
    /\ AdapterNew("openai")

SpecReference == ReferenceInit /\ [][ReferenceNext]_vars

(* -------------------------- claims on adapters ------------------------- *)

\* a step in which a call of disconnect() ends
DisconnectEnds == last_call' # last_call /\ last_call'.op = "disconnect"

\* C22: disconnect() never raises, before or after connect and however often
\* it is called; when a disconnect() has completed the listener task (if
\* there was one) has ended, the transport is closed and state is IDLE; a
\* further disconnect() changes none of these.
C22_DisconnectIdempotent ==
    /\ [](last_call.op = "disconnect" => last_call.outcome = "returned")
    /\ [](disconnected
          => /\ ~ws_open
             /\ listener \in {"none", "returned", "cancelled"}
             /\ adapter_state = "idle"
             /\ ~disconnecting)
    /\ [][(disconnected /\ nadapter' > nadapter /\ DisconnectEnds)
          => UNCHANGED <<ws_open, listener, adapter_state, response_queue,
                         disconnecting, disconnected>>]_vars

\* C22 witness: after connect, a first disconnect() cancelled the running
\* listener and closed the transport, and a second disconnect() has
\* returned with everything as the first left it.
C22_Witness ==
    /\ nadapter = 3
    /\ last_call = [op |-> "disconnect", connected |-> FALSE, outcome |-> "returned"]
    /\ disconnected /\ ~ws_open /\ listener = "returned" /\ adapter_state = "idle"

\* C23 (as claimed): for both adapter classes push_audio called while the
\* adapter is not connected fails with a not-connected error.
C23_PushWhenClosedFails ==
    (last_call.op = "push_audio" /\ ~last_call.connected)
    => last_call.outcome = "NotConnected"

\* C24 (as claimed): the consumer of get_response_stream() receives no
\* event after a disconnect() has completed, nor after an ERROR event has
\* been delivered to it.
C24_StreamEndsOnDisconnectOrError ==
    \A i \in 1..Len(delivered) :
       ~delivered[i].after_disconnect /\ ~delivered[i].after_error

(* ------------------------------ C27 ------------------------------------ *)

\* the step in which simulate returns and _dispatch records the interrupt
BargeRecorded == run.pc = "interrupting" /\ run'.pc = "loop"

\* the barge_in events whose dispatch is over, with a barge_in layer
HandledBargeIns ==
    {i \in DOMAIN dispatched :
        /\ dispatched[i].event.action = "barge_in"
        /\ "barge_in" \in layers /\ system
        /\ i < Len(dispatched) \/ run.pc \notin {"barging", "interrupting"}}

C25_RunTerminates == (run.pc # "idle") ~> (run.pc = "returned")

\* a run has returned in which an expect_tool_call timed out and a barge-in
\* trigger wait ended, the SUT having emitted no event and made no call
C25_Witness ==
    /\ run.pc = "returned"
    /\ nemitted = 0 /\ ncalls = 0
    /\ barge_in.was_handled
    /\ \E i \in DOMAIN dispatched : dispatched[i].event.action = "expect_tool_call"
    /\ \E j \in DOMAIN assertions : ~assertions[j].passed

(* ------------------------------ C29 ------------------------------------ *)

\* both runs of the scenario are over
BothRunsOver == audio_run.run = 2 /\ audio_run.next > Len(audio_run.speech)

\* C29: two runs of the same user_speak scenario with the audio, environment
\* and network ("perfect") layers registered, the same seed and the same TTS
\* audio push equal sequences of chunk data to the system
C29_PushedAudioEqual ==
    (BothRunsOver /\ audio_run.env) => pushed[1] = pushed[2]

(* ------------------------------ C31 ------------------------------------ *)

\* the ids of the events the adapter has queued, of those still in its
\* queue and of those the collector has recorded
QueuedIds == 1..nemitted
WaitingIds == {stream[i].id : i \in DOMAIN stream}
RecordedIds ==
    {responses[i].id : i \in DOMAIN responses}
        \cup {tool_calls[i].id : i \in DOMAIN tool_calls}

\* C31: the response stream has a single consumer, the collector: every
\* AUDIO or TOOL_CALL event the adapter has queued during a run is in the queue or has
\* been recorded by the collector, also when the timeline holds a barge_in
C31_CollectorIsOnlyConsumer == QueuedIds = WaitingIds \cup RecordedIds

(* ------------------------------ C32 ------------------------------------ *)

\* list s is a prefix of list t
IsPrefixOf(s, t) == Len(s) <= Len(t) /\ SubSeq(t, 1, Len(s)) = s

\* the collector's lists and the dispatch loop's list only grow
OnlyAppends ==
    /\ IsPrefixOf(assertions, assertions')
    /\ IsPrefixOf(responses, responses')
    /\ IsPrefixOf(tool_calls, tool_calls')
    /\ IsPrefixOf(first_byte_latencies, first_byte_latencies')

\* a step that writes the collector's slice, a step that writes the
\* dispatch loop's slice
CollectorWrites ==
    <<responses, tool_calls, first_byte_latencies>>'
        # <<responses, tool_calls, first_byte_latencies>>
DispatchWrites == <<assertions, barge_in>>' # <<assertions, barge_in>>

\* C32 (as claimed): during a run TestResults changes by appends only, the
\* collector's in responses, tool_calls.calls and first_byte_latencies, the
\* dispatch loop's in assertions; no field value is overwritten
C32_AppendsOnDisjointSlices ==
    [][run.pc # "idle" =>
          /\ OnlyAppends
          /\ barge_in' = barge_in
          /\ ~(CollectorWrites /\ DispatchWrites)]_vars

\* C32 (amended): the same, but for the dispatch of a barge_in, which
\* assigns was_handled and response_latency of results.barge_in; the
\* result of a wait_for_call lengthens the assertions by one
C32_AppendsOnDisjointSlicesButBargeIn ==
    [][run.pc # "idle" =>
          /\ OnlyAppends
          /\ barge_in' # barge_in => BargeRecorded
          /\ ~(CollectorWrites /\ DispatchWrites)
          /\ CollectorWrites => run' = run
          /\ DispatchWrites => run' # run
          /\ (run.pc = "in_wait" /\ run'.pc = "loop")
                => Len(assertions') = Len(assertions) + 1]_vars

\* a returned run in which the collector recorded a response and a tool
\* call and the dispatch loop added an assertion and handled a barge_in
C32_Witness ==
    /\ run.pc = "returned"
    /\ responses # <<>> /\ tool_calls # <<>>
    /\ assertions # <<>>
    /\ barge_in.was_handled

(* ------------------------------ C34 ------------------------------------ *)

\* the canonical transitions: what was handled or called, and the state set
CanonicalTransition(op, state) ==
    \/ op = "input_audio_buffer.speech_started" /\ state = "listening"
    \/ op \in {"response.created", "create_response"} /\ state = "thinking"
    \/ op = "response.audio.delta" /\ state = "speaking"
    \/ op = "response.function_call_arguments.done" /\ state = "tool_calling"
    \/ op \in {"response.done", "disconnect"} /\ state = "idle"

\* C34: in the reference adapter the state changes only on the canonical
\* transitions (speech_started, response.created and create_response, an
\* audio delta, a completed function call, response.done and disconnect);
\* every other server message leaves it unchanged
C34_StateChangesOnCanonicalOnly ==
    [][adapter_state' # adapter_state
         => last_call' # last_call /\ CanonicalTransition(last_call'.op, adapter_state')]_vars

(* ------------------------------ C35 ------------------------------------ *)

\* the chunks apply has buffered, the chunks apply has returned
BufferedChunks == {net_log[i].chunk : i \in {j \in DOMAIN net_log : ~net_log[j].connected}}
ReturnedChunks == {net_log[i].result : i \in DOMAIN net_log} \ {0}

\* C35: while is_connected is false every apply(chunk) appends the chunk to
\* the buffer and returns None without sleeping; when a simulate_disconnect
\* completes, is_connected is true and the buffer is empty; no chunk
\* buffered during an outage is ever returned by apply
C35_OutageBuffersAndDiscards ==
    /\ [][(~is_connected /\ net_log' # net_log /\ net_apply.pc = "idle")
            => /\ net_buffer' = Append(net_buffer, Len(net_log) + 1)
               /\ net_log'[Len(net_log')].result = 0
               /\ ~net_log'[Len(net_log')].slept]_vars
    /\ [][(\E o \in OutageTasks : outage[o] = "sleeping" /\ outage'[o] = "done")
            => is_connected' /\ net_buffer' = <<>>]_vars
    /\ [](BufferedChunks \cap ReturnedChunks = {})

\* two chunks were buffered during an outage that has ended, and a later
\* apply has returned its own chunk
C35_Witness ==
    /\ \E o \in OutageTasks : outage[o] = "done"
    /\ is_connected /\ net_buffer = <<>>
    /\ BufferedChunks = {1, 2}
    /\ ReturnedChunks = {3}

(* ------------------------------ C36 ------------------------------------ *)

\* the handler of an expect_tool_call is in its wait_for_call; the handler
\* of a barge_in is in simulate
WaitPending == wst["disp"].pc \in {"waiting", "timing_out", "signalled"}
HandlerInProgress ==
    WaitPending \/ run.pc \in {"in_wait", "barging", "interrupting", "speaking"}

\* the step that takes the next event from the queue and starts its handler
StartsHandler == dispatched' # dispatched

\* C36: dispatch is sequential: the handler of the next event starts only
\* when no handler is in progress, so a blocking expect_tool_call or
\* barge_in delays every later event; the timeline queue changes only in
\* steps of the run task (the enqueueing at the start of run, the get of the
\* loop and the expansion of a conditional)
C36_DispatchSequential ==
    /\ [][StartsHandler
            => /\ ~HandlerInProgress
               /\ run.pc = "loop"
               /\ Len(dispatched') = Len(dispatched) + 1]_vars
    /\ [][timeline' # timeline
            => \/ run.pc = "idle" /\ run'.pc = "loop"
               \/ StartsHandler /\ timeline' \subseteq timeline]_vars
    /\ [](HandlerInProgress => run.pc # "loop")

\* the handler of an expect_tool_call is in its wait while a later barge_in
\* is still in the queue
C36_Witness ==
    /\ run.pc = "in_wait" /\ wst["disp"].pc = "waiting"
    /\ \E e \in timeline : e.action = "barge_in"
    /\ Len(dispatched) = 1

(* ------------------------------ C37 ------------------------------------ *)

\* the steps in which w registers its expectation, in which w's
\* expectation is signalled, in which w's wait_for_call returns passed
Registers(w) ==
    wst[w].pc \notin {"waiting", "timing_out"} /\ wst'[w].pc \in {"waiting", "timing_out"}
GetsSignalled(w) == ~received[w] /\ received'[w]
ReturnsPassed(w) == wst[w].pc # "done" /\ wst'[w].pc = "done" /\ wst'[w].res.passed

\* C37: a wait_for_call observes only the calls that arrive while its
\* expectation is registered: registering leaves the expectation unset
\* whatever was logged before, only the record-and-signal step of a
\* handle_call for its tool sets it, and then only while it is registered,
\* and wait_for_call returns passed = true only when it was set
C37_OnlyCallsWhileRegisteredRelease ==
    [][\A w \in WaitTasks :
          /\ Registers(w) => ~received'[w]
          /\ GetsSignalled(w)
               => /\ IsPending(w)
                  /\ Len(call_log') = Len(call_log) + 1
                  /\ call_log'[Len(call_log')].tool = wst[w].tool
          /\ ReturnsPassed(w) => received[w] /\ IsPending(w)]_vars

\* t1 waits, unsignalled, for a tool whose call was logged before it
\* registered
C37_Witness ==
    /\ wst["t1"].pc = "waiting"
    /\ ~received["t1"]
    /\ MatchingCalls(call_log, wst["t1"].tool) # <<>>

(* ------------------------------ C38 ------------------------------------ *)

\* w is suspended in wait_until on an event that is not set; w's event is
\* in the waiter list; w is suspended, unsignalled and out of the list
SuspendedUnset(w) == cw[w].pc = "suspended" /\ ~evset[w]
InWaiterList(w) == \E i \in 1..Len(waiters) : waiters[i].ev = w
Orphaned(w) == SuspendedUnset(w) /\ ~InWaiterList(w)

\* C38: reset() sets the time to 0 and empties the waiter list without
\* setting any event, so every caller suspended in wait_until on an unset
\* event is left out of the list, and such a caller stays suspended through
\* every later step, advance_to included
C38_ResetStrandsWaiters ==
    [][/\ Reset => /\ current' = 0 /\ waiters' = <<>> /\ evset' = evset
                   /\ \A w \in ClockWaiters : SuspendedUnset(w) => Orphaned(w)'
       /\ \A w \in ClockWaiters : Orphaned(w) => Orphaned(w)']_vars

\* a caller that reset() left behind is still suspended although the clock
\* has since been advanced to its target or past it
C38_Witness ==
    \E w \in ClockWaiters :
        /\ Orphaned(w)
        /\ current >= cw[w].target

(* ------------------------------ C39 ------------------------------------ *)

\* the step is a dispatch, in a run after the first, of an event whose
\* timestamp is below the clock time at which the previous run returned
DispatchesEarlyEvent ==
    /\ Dispatches
    /\ last_run.count > 0
    /\ run'.event.timestamp < last_run.final

\* clock and counter are not reset, the numbers given to new events are
\* above every number given before, and the queue is empty when run returns
CarriedOver ==
    /\ current' >= current
    /\ seq' >= seq
    /\ \A e \in timeline' \ timeline : e.seq > seq
    /\ run'.pc = "returned" => timeline' = {}
    /\ last_run'.final >= last_run.final /\ last_run'.seq >= last_run.seq

\* C39: across successive run() calls on one orchestrator the queue is
\* empty at every return, clock time and sequence numbers never decrease,
\* and in a later run the dispatch of an event whose timestamp is below the
\* previous run's final time leaves the clock as it is
C39_LaterRunsKeepClock ==
    [][CarriedOver /\ (DispatchesEarlyEvent => current' = current)]_vars

\* C39, amended: as C39, but for such an event it is advance_to that leaves
\* the clock as it is, so the handler is entered at the time the event was
\* taken at; the handler of a wait then advances the clock by its duration,
\* and no other dispatch of such an event changes the clock
C39_LaterRunsEnterHandlerAtSameTime ==
    [][/\ CarriedOver
       /\ DispatchesEarlyEvent
            => /\ run'.entryNow = current
               /\ current' # current
                    => /\ run'.event.action = "wait"
                       /\ current' = current + run'.event.duration_ms \div 1000]_vars

\* in a second run an event with a timestamp below the first run's final
\* time has been dispatched, after the first run moved the clock
C39_Witness ==
    /\ last_run.count = 1 /\ last_run.final > 0
    /\ dispatched # <<>>
    /\ dispatched[1].event.timestamp < last_run.final
    /\ run.pc = "returned"

(* ------------------------------ C40 ------------------------------------ *)

\* C40: on the same sequence of tool names in the log,
\* ToolCallAsserter.assert_call_order raises exactly when
\* ToolCallResults.assert_call_order returns false, and neither rejects an
\* empty list of names
C40_CheckersAgree ==
    /\ fn_result # None
       => LET log == [i \in 1..Len(fn_args.actual) |-> LogEntry(fn_args.actual[i])]
          IN  IF fn_args.fn = "asserter.assert_call_order"
              THEN /\ fn_result.raised = ~AssertCallOrder(fn_args.tool_names, fn_args.actual)
                   /\ fn_args.tool_names = <<>> => ~fn_result.raised
              ELSE /\ fn_result.value = ~AsserterCallOrderRaises(fn_args.tool_names, log)
                   /\ fn_args.tool_names = <<>> => fn_result.value

\* the asserter has raised for ("a", "a") on a log with one call of a
C40_Witness ==
    /\ fn_args = [fn |-> "asserter.assert_call_order", tool_names |-> <<"a", "a">>,
                  actual |-> <<"a">>]
    /\ fn_result = [raised |-> TRUE]

====
